---- MODULE Spec2Model ----
(***************************************************************************)
(* json2csv (memory_opt variant): a JSON document is parsed into a tree    *)
(* held in the permanent arena, every record is flattened into dotted-key  *)
(* pairs in the scratch arena, pass 1 collects the header, pass 2 writes   *)
(* the rows.                                                               *)
(*                                                                         *)
(* Bytes are integers 0..255.  A pointer is a record [base, off]: base     *)
(* names the region ("in" the input buffer, "lit" the string literals,     *)
(* "perm"/"tmp" the two arenas, "sb" the reusable string buffer) and off   *)
(* the byte offset in it.  A size_t is the same record with base "int",    *)
(* so that zeroed memory reads as the integer 0 and as the NULL pointer.   *)
(* Memory is a function from offsets to cells [sz, base, off]: a byte      *)
(* (sz 1) or an 8-byte word (sz 8).  An offset not in the domain is        *)
(* uninitialized.                                                          *)
(***************************************************************************)
EXTENDS Integers, Sequences, FiniteSets, TLC

\* ------------------------------------------------------------------ bytes

Ord ==
  "{" :> 123 @@ "}" :> 125 @@ "[" :> 91 @@ "]" :> 93 @@ "," :> 44 @@ ":" :> 58
  @@ "\"" :> 34 @@ "\\" :> 92 @@ "/" :> 47 @@ " " :> 32 @@ "TAB" :> 9
  @@ "LF" :> 10 @@ "VT" :> 11 @@ "FF" :> 12 @@ "CR" :> 13 @@ "NUL" :> 0
  @@ "BS" :> 8 @@ "?" :> 63 @@ ";" :> 59 @@ "." :> 46 @@ "-" :> 45 @@ "+" :> 43
  @@ "0" :> 48 @@ "1" :> 49 @@ "2" :> 50 @@ "3" :> 51 @@ "4" :> 52 @@ "5" :> 53
  @@ "6" :> 54 @@ "7" :> 55 @@ "8" :> 56 @@ "9" :> 57
  @@ "A" :> 65 @@ "D" :> 68 @@ "E" :> 69 @@ "F" :> 70 @@ "G" :> 71
  @@ "a" :> 97 @@ "b" :> 98 @@ "c" :> 99 @@ "d" :> 100 @@ "e" :> 101
  @@ "f" :> 102 @@ "k" :> 107 @@ "l" :> 108 @@ "m" :> 109 @@ "n" :> 110 @@ "o" :> 111
  @@ "p" :> 112 @@ "q" :> 113 @@ "r" :> 114 @@ "s" :> 115 @@ "t" :> 116 @@ "u" :> 117
  @@ "x" :> 120 @@ "y" :> 121

Bytes(s) == [k \in 1..Len(s) |-> Ord[s[k]]]

EOF == 0 - 1

\* <ctype.h>, "C" locale
isspace(c) == c \in {32, 9, 10, 11, 12, 13}

isdigit(c) == c \in 48..57

\* ----------------------------------------------------------------- memory

NULL == [base |-> "int", off |-> 0]

Int64(n) == [base |-> "int", off |-> n]

Ptr(b, o) == [base |-> b, off |-> o]

PtrAdd(p, n) == [base |-> p.base, off |-> p.off + n]

ByteCell(b) == [sz |-> 1, base |-> "int", off |-> b]

WordCell(w) == [sz |-> 8, base |-> w.base, off |-> w.off]

\* what a read of uninitialized memory yields
Undef == [sz |-> 0, base |-> "undef", off |-> 0]

EmptyMem == [a \in {} |-> Undef]

\* the cells that overlap [a, a+n) are gone
Clear(mem, a, n) ==
  LET keep == {k \in DOMAIN mem : ~(k < a + n /\ k + mem[k].sz > a)}
  IN [k \in keep |-> mem[k]]

Store(mem, a, cell) == (a :> cell) @@ Clear(mem, a, cell.sz)

Load(mem, a) == IF a \in DOMAIN mem THEN mem[a] ELSE Undef

\* string literals of the program, NUL-terminated, and where each starts
LitData ==
  Bytes(<<"n", "u", "l", "l", "NUL", "t", "r", "u", "e", "NUL",
          "f", "a", "l", "s", "e", "NUL", "NUL",
          "[", "c", "o", "m", "p", "l", "e", "x", "]", "NUL",
          "{", ".", ".", ".", "}", "NUL", "[", ".", ".", ".", "]", "NUL">>)

CStr ==
  [null |-> 0, true |-> 5, false |-> 10, empty |-> 16, complex |-> 17,
   object |-> 27, array |-> 33]

RECURSIVE strlen(_)
strlen(o) == IF LitData[o + 1] = 0 THEN 0 ELSE 1 + strlen(o + 1)

\* ---------------------------------------------------- program state record
\* S carries the state the functions below read and write: the input buffer
\* and the parser position, the two arenas, the reusable string buffer, the
\* message of die() ("" while the program runs) and the return value.

Ret(S, v) == [S EXCEPT !.ret = v]

die(S, msg) == IF S.err # "" THEN S ELSE [S EXCEPT !.err = msg]

Failed(S) == S.err # ""

\* the cell at offset o of region b
CellAt(S, b, o) ==
  CASE b = "in" -> IF o >= 0 /\ o < S.len THEN ByteCell(S.input[o + 1]) ELSE Undef
    [] b = "lit" -> IF o >= 0 /\ o < Len(LitData) THEN ByteCell(LitData[o + 1]) ELSE Undef
    [] b = "perm" -> Load(S.perm.mem, o)
    [] b = "tmp" -> Load(S.tmp.mem, o)
    [] b = "sb" -> Load(S.sb.mem, o)
    [] OTHER -> Undef

MemOf(S, b) ==
  CASE b = "perm" -> S.perm.mem [] b = "tmp" -> S.tmp.mem [] b = "sb" -> S.sb.mem

SetMem(S, b, m) ==
  CASE b = "perm" -> [S EXCEPT !.perm.mem = m]
    [] b = "tmp" -> [S EXCEPT !.tmp.mem = m]
    [] b = "sb" -> [S EXCEPT !.sb.mem = m]

\* the initialized cells of [src, src+n), by their offset from src
Copied(S, src, n) ==
  [k \in {j \in 0..(n - 1) :
            CellAt(S, src.base, src.off + j).sz > 0
            /\ j + CellAt(S, src.base, src.off + j).sz <= n}
     |-> CellAt(S, src.base, src.off + k)]

\* memory m0 with the cells laid down from offset d on
Paste(m0, cells, d) ==
  [a \in DOMAIN m0 \cup {d + k : k \in DOMAIN cells} |->
     IF a - d \in DOMAIN cells THEN cells[a - d] ELSE m0[a]]

\* memcpy(dst, src, n): the initialized cells of [src, src+n) land at dst
memcpy(S, dst, src, n) ==
  IF n = 0 THEN S
  ELSE SetMem(S, dst.base,
              Paste(Clear(MemOf(S, dst.base), dst.off, n), Copied(S, src, n), dst.off))

StoreAt(S, p, cell) == SetMem(S, p.base, Store(MemOf(S, p.base), p.off, cell))

\* ------------------------------------------------------------ String Slice

slice_make(p, len) == [ptr |-> p, len |-> len]

slice_from_cstr(o) == slice_make(Ptr("lit", o), strlen(o))

\* the bytes a slice views (EOF where the memory is uninitialized)
SliceBytes(S, s) ==
  [k \in 1..s.len |->
     IF CellAt(S, s.ptr.base, s.ptr.off + k - 1).sz = 1
     THEN CellAt(S, s.ptr.base, s.ptr.off + k - 1).off
     ELSE EOF]

\* slice_eq by reference: the same pointer and length
slice_same(S, a, b) == a.len = b.len /\ a.ptr = b.ptr

slice_eq(S, a, b) == a.len = b.len /\ SliceBytes(S, a) = SliceBytes(S, b)

\* ------------------------------------------------------------------ Arena

RECURSIVE AndNot(_, _)
\* x & ~m
AndNot(x, m) ==
  IF x = 0 THEN 0
  ELSE (x % 2) * (1 - (m % 2)) + 2 * AndNot(x \div 2, m \div 2)

\* a_align_up that leaves x as it is
a_align_none(x, a) == x

a_align_up(x, a) == AndNot(x + a - 1, a - 1)

arena_init(cap) == [cap |-> cap, off |-> 0, mem |-> EmptyMem]

ArenaOf(S, which) == IF which = "perm" THEN S.perm ELSE S.tmp

SetOff(S, which, o) ==
  IF which = "perm" THEN [S EXCEPT !.perm.off = o] ELSE [S EXCEPT !.tmp.off = o]

\* arena_alloc that also dies when the region ends exactly at the capacity
arena_alloc_strict(S, which, n, align) ==
  LET Bump(off) ==
        IF off + n >= ArenaOf(S, which).cap THEN die(S, "arena out of memory")
        ELSE Ret(SetOff(S, which, off + n), Ptr(which, off))
  IN IF Failed(S) THEN S ELSE Bump(a_align_up(ArenaOf(S, which).off, align))

\* returns the pointer in S.ret; the memory handed out keeps whatever it held
arena_alloc(S, which, n, align) ==
  LET Bump(off) ==
        IF off + n > ArenaOf(S, which).cap THEN die(S, "arena out of memory")
        ELSE Ret(SetOff(S, which, off + n), Ptr(which, off))
  IN IF Failed(S) THEN S ELSE Bump(a_align_up(ArenaOf(S, which).off, align))

\* n zero bytes, as zero words followed by the bytes past the last whole word
Zeros(n) ==
  [k \in {8 * j : j \in 0..((n \div 8) - 1)} \cup ((8 * (n \div 8))..(n - 1)) |->
     IF k < 8 * (n \div 8) THEN WordCell(NULL) ELSE ByteCell(0)]

\* memset(p, 0, n)
arena_alloc0(S, which, n, align) ==
  LET Zero(S1) ==
        IF Failed(S1) THEN S1
        ELSE SetMem(S1, which,
                    Paste(Clear(MemOf(S1, which), S1.ret.off, n), Zeros(n), S1.ret.off))
  IN Zero(arena_alloc(S, which, n, align))

arena_slice_dup(S, which, s) ==
  LET Copy(S1) ==
        IF Failed(S1) THEN S1
        ELSE StoreAt(memcpy(S1, S1.ret, s.ptr, s.len), PtrAdd(S1.ret, s.len), ByteCell(0))
  IN Copy(arena_alloc(S, which, s.len + 1, 1))

arena_grow(S, which, old, old_bytes, new_bytes, align) ==
  LET Copy(S1) ==
        IF Failed(S1) THEN S1
        ELSE IF old # NULL /\ old_bytes # 0 THEN memcpy(S1, S1.ret, old, old_bytes)
        ELSE S1
  IN Copy(arena_alloc(S, which, new_bytes, align))

arena_mark(S, which) == ArenaOf(S, which).off

\* arena_reset that leaves the offset where it is
arena_keep(S, which, mark) == S

\* arena_reset that gives the whole arena back
arena_rewind(S, which, mark) == SetOff(S, which, 0)

arena_reset(S, which, mark) == SetOff(S, which, mark)

\* ------------------------------------------------- Reusable String Buffer

strbuf_init(initial_cap) ==
  [mem |-> (0 :> ByteCell(0)), len |-> 0, cap |-> initial_cap]

strbuf_reset(S) ==
  [S EXCEPT !.sb.len = 0, !.sb.mem = Store(S.sb.mem, 0, ByteCell(0))]

RECURSIVE GrowCap(_, _)
GrowCap(newcap, want) ==
  IF newcap < want THEN GrowCap(IF newcap # 0 THEN newcap * 2 ELSE 64, want)
  ELSE newcap

\* realloc keeps the bytes; it is taken to succeed
strbuf_ensure(S, needed) ==
  IF S.sb.len + needed + 1 < S.sb.cap THEN S
  ELSE [S EXCEPT !.sb.cap = GrowCap(S.sb.cap, S.sb.len + needed + 1)]

strbuf_push(S, ch) ==
  LET Put(S1) ==
        [S1 EXCEPT !.sb.mem = Store(Store(S1.sb.mem, S1.sb.len, ByteCell(ch)),
                                    S1.sb.len + 1, ByteCell(0)),
                   !.sb.len = S1.sb.len + 1]
  IN Put(strbuf_ensure(S, 1))

strbuf_append(S, s, len) ==
  LET Terminate(S2, at) ==
        [S2 EXCEPT !.sb.mem = Store(S2.sb.mem, at, ByteCell(0)), !.sb.len = at]
      Put(S1) == Terminate(memcpy(S1, Ptr("sb", S1.sb.len), s, len), S1.sb.len + len)
  IN Put(strbuf_ensure(S, len))

strbuf_append_cstr(S, o) == strbuf_append(S, Ptr("lit", o), strlen(o))

strbuf_append_slice(S, s) == strbuf_append(S, s.ptr, s.len)

strbuf_slice(S) == slice_make(Ptr("sb", 0), S.sb.len)

\* -------------------------------------------------------------- JSON tree
\* LP64 layout.  JValue: type at 0, the union at 8 (boolean | slice ptr,len |
\* items/members, len, cap).  JMember: key.ptr, key.len, value.  KV: key.ptr,
\* key.len, val.ptr, val.len.

J_NULL == 0
J_BOOL == 1
J_NUMBER == 2
J_STRING == 3
J_ARRAY == 4
J_OBJECT == 5

SizeOf == [JValue |-> 32, JMember |-> 24, KV |-> 32, StrSlice |-> 16, ptr |-> 8]

WordOf(c) ==
  IF c.sz = 8 THEN [base |-> c.base, off |-> c.off] ELSE [base |-> "undef", off |-> 0]

GetW(S, p, f) == WordOf(CellAt(S, p.base, p.off + f))

GetInt(S, p, f) == GetW(S, p, f).off

SetW(S, p, f, w) == StoreAt(S, PtrAdd(p, f), WordCell(w))

GetSlice(S, p, f) == slice_make(GetW(S, p, f), GetInt(S, p, f + 8))

SetSlice(S, p, f, s) == SetW(SetW(S, p, f, s.ptr), p, f + 8, Int64(s.len))

TypeOf(S, v) == GetInt(S, v, 0)

jnew(S, t) ==
  LET Tagged(S1) == IF Failed(S1) THEN S1 ELSE SetW(S1, S1.ret, 0, Int64(t))
  IN Tagged(arena_alloc0(S, "perm", SizeOf.JValue, 8))

jarray_push(S, arr, item) ==
  LET Put(S2) ==
        IF Failed(S2) THEN S2
        ELSE SetW(SetW(S2, PtrAdd(GetW(S2, arr, 8), GetInt(S2, arr, 16) * SizeOf.ptr),
                       0, item),
                  arr, 16, Int64(GetInt(S2, arr, 16) + 1))
      Grown(S1, newcap) ==
        IF Failed(S1) THEN S1
        ELSE SetW(SetW(S1, arr, 8, S1.ret), arr, 24, Int64(newcap))
      Grow(oldcap, newcap) ==
        Grown(arena_grow(S, "perm", GetW(S, arr, 8), oldcap * SizeOf.ptr,
                         newcap * SizeOf.ptr, 8), newcap)
  IN IF TypeOf(S, arr) # J_ARRAY THEN die(S, "internal: not array")
     ELSE IF GetInt(S, arr, 16) = GetInt(S, arr, 24)
       THEN Put(Grow(GetInt(S, arr, 24),
                     IF GetInt(S, arr, 24) # 0 THEN GetInt(S, arr, 24) * 2 ELSE 8))
     ELSE Put(S)

jobject_add(S, obj, key, value) ==
  LET Put(S2, m) ==
        SetW(SetW(SetSlice(S2, m, 0, key), m, 16, value),
             obj, 16, Int64(GetInt(S2, obj, 16) + 1))
      Room(S2) ==
        IF Failed(S2) THEN S2
        ELSE Put(S2, PtrAdd(GetW(S2, obj, 8), GetInt(S2, obj, 16) * SizeOf.JMember))
      Grown(S1, newcap) ==
        IF Failed(S1) THEN S1
        ELSE SetW(SetW(S1, obj, 8, S1.ret), obj, 24, Int64(newcap))
      Grow(oldcap, newcap) ==
        Grown(arena_grow(S, "perm", GetW(S, obj, 8), oldcap * SizeOf.JMember,
                         newcap * SizeOf.JMember, 8), newcap)
  IN IF TypeOf(S, obj) # J_OBJECT THEN die(S, "internal: not object")
     ELSE IF GetInt(S, obj, 16) = GetInt(S, obj, 24)
       THEN Room(Grow(GetInt(S, obj, 24),
                      IF GetInt(S, obj, 24) # 0 THEN GetInt(S, obj, 24) * 2 ELSE 8))
     ELSE Room(S)

\* ----------------------------------------------------------------- Parser

p_init(input, perm, tmp, sb) ==
  [input |-> input, pos |-> 0, len |-> Len(input), perm |-> perm, tmp |-> tmp,
   sb |-> sb, err |-> "", ret |-> NULL]

p_peek(S) == IF S.pos >= S.len THEN EOF ELSE S.input[S.pos + 1]

p_next(S) == IF S.pos < S.len THEN [S EXCEPT !.pos = S.pos + 1] ELSE S

\* p->pos++
Advance(S) == [S EXCEPT !.pos = S.pos + 1]

\* the condition of p_skip_ws's while
WsCond(S) == S.pos < S.len /\ isspace(S.input[S.pos + 1])

RECURSIVE p_skip_ws(_)
p_skip_ws(S) == IF WsCond(S) THEN p_skip_ws(Advance(S)) ELSE S

p_expect(S, ch) ==
  IF p_peek(S) # ch THEN die(S, "unexpected character") ELSE p_next(S)

hexval(ch) ==
  IF 48 <= ch /\ ch <= 57 THEN ch - 48
  ELSE IF 97 <= ch /\ ch <= 102 THEN 10 + (ch - 97)
  ELSE IF 65 <= ch /\ ch <= 70 THEN 10 + (ch - 65)
  ELSE 0 - 1

\* the condition of the fast path's while
ScanCond(S) == S.pos < S.len /\ S.input[S.pos + 1] # 34 /\ S.input[S.pos + 1] # 92

RECURSIVE FastScan(_)
\* the fast path's scan: stops at end of input, at a quote or at a backslash
FastScan(S) == IF ScanCond(S) THEN FastScan(Advance(S)) ELSE S

\* one iteration of the for over the four hex digits; the value so far is
\* left in S.ret
HexIter(S, v) ==
  LET Hex(S1) ==
        IF hexval(p_peek(S1)) < 0 THEN die(S1, "bad \\u escape")
        ELSE Ret(S1, v * 16 + hexval(p_peek(S1)))
  IN Hex(p_next(S))

RECURSIVE UEscape(_, _, _)
\* the four hex digits of \uXXXX; the value is left in S.ret
UEscape(S, i, v) ==
  LET Again(S1) == IF Failed(S1) THEN S1 ELSE UEscape(S1, i + 1, S1.ret)
  IN IF i = 4 THEN Ret(S, v) ELSE Again(HexIter(S, v))

\* the switch with \uXXXX above 0x7F written as the two bytes of its UTF-8 form
EscapeUtf8(S) ==
  LET PushU(U) ==
        IF Failed(U) THEN U
        ELSE IF U.ret <= 127 THEN strbuf_push(U, U.ret)
        ELSE strbuf_push(strbuf_push(U, 192 + ((U.ret \div 64) % 32)), 128 + (U.ret % 64))
      On(c) ==
        CASE c = 34 -> strbuf_push(S, 34)
          [] c = 92 -> strbuf_push(S, 92)
          [] c = 47 -> strbuf_push(S, 47)
          [] c = 98 -> strbuf_push(S, 8)
          [] c = 102 -> strbuf_push(S, 12)
          [] c = 110 -> strbuf_push(S, 10)
          [] c = 114 -> strbuf_push(S, 13)
          [] c = 116 -> strbuf_push(S, 9)
          [] c = 117 -> PushU(UEscape(S, 0, 0))
          [] OTHER -> die(S, "unknown escape")
  IN On(p_peek(S))

\* the switch on the byte after a backslash
Escape(S) ==
  LET PushU(U) ==
        IF Failed(U) THEN U ELSE strbuf_push(U, IF U.ret <= 127 THEN U.ret ELSE 63)
      On(c) ==
        IF c \in {34, 92, 47, 98, 102, 110, 114, 116}
        THEN strbuf_push(S, CASE c = 34 -> 34
                              [] c = 92 -> 92
                              [] c = 47 -> 47
                              [] c = 98 -> 8
                              [] c = 102 -> 12
                              [] c = 110 -> 10
                              [] c = 114 -> 13
                              [] c = 116 -> 9)
        ELSE IF c = 117 THEN PushU(UEscape(S, 0, 0))
        ELSE die(S, "unknown escape")
  IN On(p_peek(S))

\* one iteration of the slow path's decoding loop, entered at a byte that
\* is neither the end of the input nor a quote
SlowIter(S) ==
  LET Escaped(S2) == IF Failed(S2) THEN S2 ELSE p_next(S2)
      Backslash(S1) ==
        IF p_peek(S1) = EOF THEN die(S1, "bad escape") ELSE Escaped(Escape(S1))
  IN IF p_peek(S) = 92 THEN Backslash(p_next(S))
     ELSE p_next(strbuf_push(S, p_peek(S)))

\* the slow path's while going on at the end of the input
SlowCondPastEnd(S) == p_peek(S) # 34

\* the condition of the slow path's while
SlowCond(S) == p_peek(S) # EOF /\ p_peek(S) # 34

RECURSIVE SlowLoop(_)
\* the slow path's decoding loop
SlowLoop(S) ==
  LET Again(S1) == IF Failed(S1) THEN S1 ELSE SlowLoop(S1)
  IN IF SlowCond(S) THEN Again(SlowIter(S)) ELSE S

\* the slow path returning the buffer itself, without the copy to A_perm
parse_string_slow_alias(S, start) ==
  LET Close(S2) == IF Failed(S2) THEN S2 ELSE Ret(S2, strbuf_slice(S2))
      Decoded(S1) == IF Failed(S1) THEN S1 ELSE Close(p_expect(S1, 34))
  IN Decoded(SlowLoop([strbuf_reset(S) EXCEPT !.pos = start]))

\* the slow path: decode into the buffer, copy the buffer to A_perm
parse_string_slow(S, start) ==
  LET Dup(S3) == IF Failed(S3) THEN S3 ELSE Ret(S3, slice_make(S3.ret, S3.sb.len))
      Close(S2) ==
        IF Failed(S2) THEN S2 ELSE Dup(arena_slice_dup(S2, "perm", strbuf_slice(S2)))
      Decoded(S1) == IF Failed(S1) THEN S1 ELSE Close(p_expect(S1, 34))
  IN Decoded(SlowLoop([strbuf_reset(S) EXCEPT !.pos = start]))

\* the fast path: no backslash before the closing quote, a slice of the input
parse_string_fast(S, start) ==
  Ret(p_next(S), slice_make(Ptr("in", start), S.pos - start))

\* parse_string always decoding into the buffer and copying to A_perm
parse_string_copy(S) ==
  LET Opened(S1) == IF Failed(S1) THEN S1 ELSE parse_string_slow(S1, S1.pos)
  IN Opened(p_expect(S, 34))

parse_string(S) ==
  LET Scanned(S2, start) ==
        IF ~(S2.pos < S2.len /\ S2.input[S2.pos + 1] = 92)
           /\ S2.pos < S2.len /\ S2.input[S2.pos + 1] = 34
        THEN parse_string_fast(S2, start)
        ELSE parse_string_slow(S2, start)
      Opened(S1) == IF Failed(S1) THEN S1 ELSE Scanned(FastScan(S1), S1.pos)
  IN Opened(p_expect(S, 34))

\* the condition of parse_number's three whiles
DigitsCond(S) == p_peek(S) # EOF /\ isdigit(p_peek(S))

RECURSIVE Digits(_)
Digits(S) == IF DigitsCond(S) THEN Digits(p_next(S)) ELSE S

\* the integer part: a single 0, or a digit 1-9 and the digits after it
NumberInt(S) ==
  IF Failed(S) THEN S
  ELSE IF ~isdigit(p_peek(S)) THEN die(S, "bad number")
  ELSE IF p_peek(S) = 48 THEN p_next(S)
  ELSE Digits(S)

\* the optional fraction
NumberFrac(S) ==
  LET FracDigits(S3) ==
        IF ~isdigit(p_peek(S3)) THEN die(S3, "bad number fraction") ELSE Digits(S3)
  IN IF Failed(S) THEN S
     ELSE IF p_peek(S) = 46 THEN FracDigits(p_next(S))
     ELSE S

\* the optional exponent
NumberExp(S) ==
  LET ExpDigits(S6) ==
        IF ~isdigit(p_peek(S6)) THEN die(S6, "bad number exponent") ELSE Digits(S6)
      ExpSign(S5) ==
        ExpDigits(IF p_peek(S5) = 43 \/ p_peek(S5) = 45 THEN p_next(S5) ELSE S5)
  IN IF Failed(S) THEN S
     ELSE IF p_peek(S) = 101 \/ p_peek(S) = 69 THEN ExpSign(p_next(S))
     ELSE S

\* the optional sign
NumberSign(S) == IF p_peek(S) = 45 THEN p_next(S) ELSE S

\* parse_number dropping a zero that ends a fraction from the slice it returns
parse_number_trim(S) ==
  LET Trim(S7, n) ==
        IF n > 1 /\ S7.input[S.pos + n] = 48
           /\ \E k \in 1..(n - 1) : S7.input[S.pos + k] = 46
        THEN Ret(S7, slice_make(Ptr("in", S.pos), n - 1))
        ELSE Ret(S7, slice_make(Ptr("in", S.pos), n))
      Done(S7) == IF Failed(S7) THEN S7 ELSE Trim(S7, S7.pos - S.pos)
  IN Done(NumberExp(NumberFrac(NumberInt(NumberSign(S)))))

\* parse_number taking every digit of the integer part, a 0 first or not
parse_number_anyint(S) ==
  LET Done(S7) ==
        IF Failed(S7) THEN S7 ELSE Ret(S7, slice_make(Ptr("in", S.pos), S7.pos - S.pos))
      AnyInt(S1) ==
        IF ~isdigit(p_peek(S1)) THEN die(S1, "bad number") ELSE Digits(S1)
  IN Done(NumberExp(NumberFrac(AnyInt(NumberSign(S)))))

parse_number(S) ==
  LET Done(S7) ==
        IF Failed(S7) THEN S7 ELSE Ret(S7, slice_make(Ptr("in", S.pos), S7.pos - S.pos))
  IN Done(NumberExp(NumberFrac(NumberInt(NumberSign(S)))))

\* p_match_kw without the test that the keyword fits before the end
p_match_kw_unguarded(S, kw, kwlen) ==
  IF \E k \in 0..(kwlen - 1) : S.input[S.pos + k + 1] # LitData[kw + k + 1]
  THEN Ret(S, 0)
  ELSE Ret([S EXCEPT !.pos = S.pos + kwlen], 1)

\* memcmp of the keyword literal at offset kw against the input
p_match_kw(S, kw, kwlen) ==
  IF S.pos + kwlen > S.len THEN Ret(S, 0)
  ELSE IF \E k \in 0..(kwlen - 1) : S.input[S.pos + k + 1] # LitData[kw + k + 1]
    THEN Ret(S, 0)
  ELSE Ret([S EXCEPT !.pos = S.pos + kwlen], 1)

RECURSIVE parse_value(_), parse_array(_), parse_object(_)
RECURSIVE parse_array_loop(_, _), parse_object_loop(_, _)

\* one iteration of the while (1) of parse_array; S.ret tells whether the
\* loop goes on (continue) or ends (break)
ArrayIter(S, arr) ==
  LET Sep(S3) ==
        IF p_peek(S3) = 44 THEN Ret(p_next(S3), TRUE)
        ELSE IF p_peek(S3) = 93 THEN Ret(p_next(S3), FALSE)
        ELSE die(S3, "bad array syntax")
      Pushed(S2) == IF Failed(S2) THEN S2 ELSE Sep(p_skip_ws(S2))
      Item(S1) == IF Failed(S1) THEN S1 ELSE Pushed(jarray_push(S1, arr, S1.ret))
  IN Item(parse_value(p_skip_ws(S)))

\* the while (1) of parse_array
parse_array_loop(S, arr) ==
  LET Looped(S1) ==
        IF Failed(S1) THEN S1
        ELSE IF S1.ret THEN parse_array_loop(S1, arr)
        ELSE Ret(S1, arr)
  IN Looped(ArrayIter(S, arr))

parse_array(S) ==
  LET Node(S2) ==
        IF Failed(S2) THEN S2
        ELSE IF p_peek(S2) = 93 THEN Ret(p_next(S2), S2.ret)
        ELSE parse_array_loop(S2, S2.ret)
      Opened(S1) == IF Failed(S1) THEN S1 ELSE Node(jnew(p_skip_ws(S1), J_ARRAY))
  IN Opened(p_expect(S, 91))

\* one iteration of the while (1) of parse_object; S.ret tells whether the
\* loop goes on (continue) or ends (break)
ObjectIter(S, obj) ==
  LET Sep(S6) ==
        IF p_peek(S6) = 44 THEN Ret(p_next(S6), TRUE)
        ELSE IF p_peek(S6) = 125 THEN Ret(p_next(S6), FALSE)
        ELSE die(S6, "bad object syntax")
      Added(S5) == IF Failed(S5) THEN S5 ELSE Sep(p_skip_ws(S5))
      Value(S4, key) ==
        IF Failed(S4) THEN S4 ELSE Added(jobject_add(S4, obj, key, S4.ret))
      Colon(S3, key) ==
        IF Failed(S3) THEN S3 ELSE Value(parse_value(p_skip_ws(S3)), key)
      Key(S2) ==
        IF Failed(S2) THEN S2 ELSE Colon(p_expect(p_skip_ws(S2), 58), S2.ret)
      Start(S1) ==
        IF p_peek(S1) # 34 THEN die(S1, "object key must be string")
        ELSE Key(parse_string(S1))
  IN Start(p_skip_ws(S))

\* the while (1) of parse_object
parse_object_loop(S, obj) ==
  LET Looped(S1) ==
        IF Failed(S1) THEN S1
        ELSE IF S1.ret THEN parse_object_loop(S1, obj)
        ELSE Ret(S1, obj)
  IN Looped(ObjectIter(S, obj))

parse_object(S) ==
  LET Node(S2) ==
        IF Failed(S2) THEN S2
        ELSE IF p_peek(S2) = 125 THEN Ret(p_next(S2), S2.ret)
        ELSE parse_object_loop(S2, S2.ret)
      Opened(S1) == IF Failed(S1) THEN S1 ELSE Node(jnew(p_skip_ws(S1), J_OBJECT))
  IN Opened(p_expect(S, 123))

\* true, false, null: match the keyword, then allocate the node
Keyword(S, kw, kwlen, t, b) ==
  LET Node(S2) ==
        IF Failed(S2) \/ t # J_BOOL THEN S2 ELSE SetW(S2, S2.ret, 8, Int64(b))
      Matched(S1) == IF S1.ret = 0 THEN die(S1, "bad token") ELSE Node(jnew(S1, t))
  IN Matched(p_match_kw(S, kw, kwlen))

\* a string or a number: allocate the node, then read the token into it
Token(S, t) ==
  LET Lexed(S2, v) ==
        IF Failed(S2) THEN S2 ELSE Ret(SetSlice(S2, v, 8, S2.ret), v)
      Node(S1) ==
        IF Failed(S1) THEN S1
        ELSE Lexed(IF t = J_STRING THEN parse_string(S1) ELSE parse_number(S1), S1.ret)
  IN Node(jnew(S, t))

parse_value(S0) ==
  LET On(S, c) ==
        IF c = EOF THEN die(S, "unexpected EOF")
        ELSE IF c = 34 THEN Token(S, J_STRING)
        ELSE IF c = 123 THEN parse_object(S)
        ELSE IF c = 91 THEN parse_array(S)
        ELSE IF c = 116 THEN Keyword(S, CStr.true, 4, J_BOOL, 1)
        ELSE IF c = 102 THEN Keyword(S, CStr.false, 5, J_BOOL, 0)
        ELSE IF c = 110 THEN Keyword(S, CStr.null, 4, J_NULL, 0)
        ELSE IF c = 45 \/ isdigit(c) THEN Token(S, J_NUMBER)
        ELSE die(S, "unknown value")
      Skipped(S) == On(S, p_peek(S))
  IN Skipped(p_skip_ws(S0))

\* ------------------------------------------------------------- Flattening
\* A KVList [items, len, cap] and a KeySet [keys, len, cap] are locals of main;
\* the functions that change one return it in S.ret.

EmptyList == [items |-> NULL, len |-> 0, cap |-> 0]

\* kv_push growing the list in the permanent arena
kv_push_perm(S, l, k, v) ==
  LET Put(S2, l1) ==
        IF Failed(S2) THEN S2
        ELSE Ret(SetSlice(SetSlice(S2, PtrAdd(l1.items, l1.len * SizeOf.KV), 0, k),
                          PtrAdd(l1.items, l1.len * SizeOf.KV), 16, v),
                 [l1 EXCEPT !.len = l1.len + 1])
      Grown(S1, newcap) == Put(S1, [l EXCEPT !.items = S1.ret, !.cap = newcap])
      Grow(oldcap, newcap) ==
        Grown(arena_grow(S, "perm", l.items, oldcap * SizeOf.KV, newcap * SizeOf.KV, 8),
              newcap)
  IN IF l.len = l.cap THEN Grow(l.cap, IF l.cap # 0 THEN l.cap * 2 ELSE 16)
     ELSE Put(S, l)

kv_push(S, l, k, v) ==
  LET Put(S2, l1) ==
        IF Failed(S2) THEN S2
        ELSE Ret(SetSlice(SetSlice(S2, PtrAdd(l1.items, l1.len * SizeOf.KV), 0, k),
                          PtrAdd(l1.items, l1.len * SizeOf.KV), 16, v),
                 [l1 EXCEPT !.len = l1.len + 1])
      Grown(S1, newcap) == Put(S1, [l EXCEPT !.items = S1.ret, !.cap = newcap])
      Grow(oldcap, newcap) ==
        Grown(arena_grow(S, "tmp", l.items, oldcap * SizeOf.KV, newcap * SizeOf.KV, 8),
              newcap)
  IN IF l.len = l.cap THEN Grow(l.cap, IF l.cap # 0 THEN l.cap * 2 ELSE 16)
     ELSE Put(S, l)

slice_primitive(S, v) ==
  LET t == TypeOf(S, v)
  IN CASE t = J_NULL -> slice_from_cstr(CStr.null)
       [] t = J_BOOL ->
            slice_from_cstr(IF GetInt(S, v, 8) # 0 THEN CStr.true ELSE CStr.false)
       [] t = J_NUMBER -> GetSlice(S, v, 8)
       [] t = J_STRING -> GetSlice(S, v, 8)
       [] OTHER -> slice_from_cstr(CStr.complex)

\* arr->as.array.items[i]
ItemAt(S, arr, i) == GetW(S, PtrAdd(GetW(S, arr, 8), i * SizeOf.ptr), 0)

array_is_all_primitives(S, arr) ==
  \A i \in 0..(GetInt(S, arr, 16) - 1) :
     TypeOf(S, ItemAt(S, arr, i)) \in {J_NULL, J_BOOL, J_NUMBER, J_STRING}

\* copy the buffer to the scratch arena and return the copy as a slice
DupBuffer(S) ==
  LET Dup(S2) == IF Failed(S2) THEN S2 ELSE Ret(S2, slice_make(S2.ret, S2.sb.len))
  IN IF Failed(S) THEN S ELSE Dup(arena_slice_dup(S, "tmp", strbuf_slice(S)))

RECURSIVE JoinLoopComma(_, _, _)
\* the joining loop with a comma for the separator
JoinLoopComma(S, arr, i) ==
  LET Item(S1) == strbuf_append_slice(S1, slice_primitive(S1, ItemAt(S1, arr, i)))
  IN IF Failed(S) \/ i >= GetInt(S, arr, 16) THEN S
     ELSE JoinLoopComma(Item(IF i > 0 THEN strbuf_push(S, 44) ELSE S), arr, i + 1)

RECURSIVE JoinLoop(_, _, _)
JoinLoop(S, arr, i) ==
  LET Item(S1) == strbuf_append_slice(S1, slice_primitive(S1, ItemAt(S1, arr, i)))
  IN IF Failed(S) \/ i >= GetInt(S, arr, 16) THEN S
     ELSE JoinLoop(Item(IF i > 0 THEN strbuf_push(S, 59) ELSE S), arr, i + 1)

join_array_primitives(S, arr) == DupBuffer(JoinLoop(strbuf_reset(S), arr, 0))

\* make_key with the dot written before the key even when the prefix is empty
make_key_dot(S, prefix, k) ==
  DupBuffer(strbuf_append_slice(
              strbuf_push(strbuf_append_slice(strbuf_reset(S), prefix), 46), k))

\* make_key returning the buffer itself for a dotted key, without the copy
make_key_alias(S, prefix, k) ==
  LET Dup(S0) == IF Failed(S0) THEN S0 ELSE Ret(S0, slice_make(S0.ret, k.len))
      Built(S1) == Ret(S1, strbuf_slice(S1))
  IN IF prefix.len = 0 THEN Dup(arena_slice_dup(S, "tmp", k))
     ELSE Built(strbuf_append_slice(
                  strbuf_push(strbuf_append_slice(strbuf_reset(S), prefix), 46), k))

\* make_key appending to the buffer as it stands, without strbuf_reset
make_key_noreset(S, prefix, k) ==
  LET Dup(S0) == IF Failed(S0) THEN S0 ELSE Ret(S0, slice_make(S0.ret, k.len))
  IN IF prefix.len = 0 THEN Dup(arena_slice_dup(S, "tmp", k))
     ELSE DupBuffer(strbuf_append_slice(strbuf_push(strbuf_append_slice(S, prefix), 46), k))

make_key(S, prefix, k) ==
  LET Dup(S0) == IF Failed(S0) THEN S0 ELSE Ret(S0, slice_make(S0.ret, k.len))
  IN IF prefix.len = 0 THEN Dup(arena_slice_dup(S, "tmp", k))
     ELSE DupBuffer(strbuf_append_slice(
                      strbuf_push(strbuf_append_slice(strbuf_reset(S), prefix), 46), k))

\* json_print_value with an object element written as {} and an array as []
json_print_value_bare(S, v) ==
  LET On(t) ==
        CASE t = J_NULL -> strbuf_append_cstr(S, CStr.null)
          [] t = J_BOOL ->
               strbuf_append_cstr(S, IF GetInt(S, v, 8) # 0 THEN CStr.true
                                     ELSE CStr.false)
          [] t = J_NUMBER -> strbuf_append_slice(S, GetSlice(S, v, 8))
          [] t = J_STRING ->
               strbuf_push(strbuf_append_slice(strbuf_push(S, 34), GetSlice(S, v, 8)), 34)
          [] t = J_OBJECT -> strbuf_push(strbuf_push(S, 123), 125)
          [] t = J_ARRAY -> strbuf_push(strbuf_push(S, 91), 93)
          [] OTHER -> S
  IN On(TypeOf(S, v))

json_print_value(S, v) ==
  LET On(t) ==
        CASE t = J_NULL -> strbuf_append_cstr(S, CStr.null)
          [] t = J_BOOL ->
               strbuf_append_cstr(S, IF GetInt(S, v, 8) # 0 THEN CStr.true
                                     ELSE CStr.false)
          [] t = J_NUMBER -> strbuf_append_slice(S, GetSlice(S, v, 8))
          [] t = J_STRING ->
               strbuf_push(strbuf_append_slice(strbuf_push(S, 34), GetSlice(S, v, 8)), 34)
          [] t = J_OBJECT -> strbuf_append_cstr(S, CStr.object)
          [] t = J_ARRAY -> strbuf_append_cstr(S, CStr.array)
          [] OTHER -> S
  IN On(TypeOf(S, v))

RECURSIVE PrintLoop(_, _, _)
PrintLoop(S, arr, i) ==
  LET Item(S1) == json_print_value(S1, ItemAt(S1, arr, i))
  IN IF Failed(S) \/ i >= GetInt(S, arr, 16) THEN S
     ELSE PrintLoop(Item(IF i # 0 THEN strbuf_push(S, 44) ELSE S), arr, i + 1)

json_array_to_string(S, arr) ==
  DupBuffer(strbuf_push(PrintLoop(strbuf_push(strbuf_reset(S), 91), arr, 0), 93))

RECURSIVE flatten_value(_, _, _, _), flatten_object(_, _, _, _), FlattenLoop(_, _, _, _, _)

flatten_value(S, v, prefix, out) ==
  LET Push(S1) == IF Failed(S1) THEN S1 ELSE kv_push(S1, out, prefix, S1.ret)
  IN IF TypeOf(S, v) = J_OBJECT THEN flatten_object(S, v, prefix, out)
     ELSE IF TypeOf(S, v) = J_ARRAY
       THEN Push(IF array_is_all_primitives(S, v) THEN join_array_primitives(S, v)
                 ELSE json_array_to_string(S, v))
     ELSE kv_push(S, out, prefix, slice_primitive(S, v))

\* obj->as.object.members[i]
MemberAt(S, obj, i) == PtrAdd(GetW(S, obj, 8), i * SizeOf.JMember)

FlattenLoop(S, obj, prefix, out, i) ==
  LET Again(S2) ==
        IF Failed(S2) THEN S2 ELSE FlattenLoop(S2, obj, prefix, S2.ret, i + 1)
      Member(S1, m) ==
        IF Failed(S1) THEN S1 ELSE Again(flatten_value(S1, GetW(S1, m, 16), S1.ret, out))
      At(m) == Member(make_key(S, prefix, GetSlice(S, m, 0)), m)
  IN IF i >= GetInt(S, obj, 16) THEN Ret(S, out) ELSE At(MemberAt(S, obj, i))

flatten_object(S, obj, prefix, out) == FlattenLoop(S, obj, prefix, out, 0)

\* --------------------------------------------------------- Header collection

KeyAt(S, s, i) == GetSlice(S, PtrAdd(s.keys, i * SizeOf.StrSlice), 0)

keyset_contains(S, s, k) ==
  \E i \in 0..(s.len - 1) : slice_eq(S, KeyAt(S, s, i), k)

EmptyKeySet == [keys |-> NULL, len |-> 0, cap |-> 0]

\* keyset_add without the containment test: every key is appended
keyset_add_nocheck(S, s, k) ==
  LET Put(S3, s1) ==
        IF Failed(S3) THEN S3
        ELSE Ret(SetSlice(S3, PtrAdd(s1.keys, s1.len * SizeOf.StrSlice), 0,
                          slice_make(S3.ret, k.len)),
                 [s1 EXCEPT !.len = s1.len + 1])
      Room(S2, s1) == IF Failed(S2) THEN S2 ELSE Put(arena_slice_dup(S2, "perm", k), s1)
      Grown(S1, newcap) == Room(S1, [s EXCEPT !.keys = S1.ret, !.cap = newcap])
  IN IF s.len = s.cap
     THEN Grown(arena_grow(S, "perm", s.keys, s.cap * SizeOf.StrSlice,
                           (IF s.cap # 0 THEN s.cap * 2 ELSE 32) * SizeOf.StrSlice, 8),
                IF s.cap # 0 THEN s.cap * 2 ELSE 32)
     ELSE Room(S, s)

\* keyset_add that stores the slice it was given, without the copy
keyset_add_alias(S, s, k) ==
  LET Put(S3, s1) ==
        IF Failed(S3) THEN S3
        ELSE Ret(SetSlice(S3, PtrAdd(s1.keys, s1.len * SizeOf.StrSlice), 0, k),
                 [s1 EXCEPT !.len = s1.len + 1])
      Grown(S1, newcap) == Put(S1, [s EXCEPT !.keys = S1.ret, !.cap = newcap])
      Grow(oldcap, newcap) ==
        Grown(arena_grow(S, "perm", s.keys, oldcap * SizeOf.StrSlice,
                         newcap * SizeOf.StrSlice, 8), newcap)
  IN IF keyset_contains(S, s, k) THEN Ret(S, s)
     ELSE IF s.len = s.cap THEN Grow(s.cap, IF s.cap # 0 THEN s.cap * 2 ELSE 32)
     ELSE Put(S, s)

keyset_add(S, s, k) ==
  LET Put(S3, s1) ==
        IF Failed(S3) THEN S3
        ELSE Ret(SetSlice(S3, PtrAdd(s1.keys, s1.len * SizeOf.StrSlice), 0,
                          slice_make(S3.ret, k.len)),
                 [s1 EXCEPT !.len = s1.len + 1])
      Room(S2, s1) == IF Failed(S2) THEN S2 ELSE Put(arena_slice_dup(S2, "perm", k), s1)
      Grown(S1, newcap) == Room(S1, [s EXCEPT !.keys = S1.ret, !.cap = newcap])
      Grow(oldcap, newcap) ==
        Grown(arena_grow(S, "perm", s.keys, oldcap * SizeOf.StrSlice,
                         newcap * SizeOf.StrSlice, 8), newcap)
  IN IF keyset_contains(S, s, k) THEN Ret(S, s)
     ELSE IF s.len = s.cap THEN Grow(s.cap, IF s.cap # 0 THEN s.cap * 2 ELSE 32)
     ELSE Room(S, s)

\* ---------------------------------------------------------------- CSV writer

\* the bytes written inside the quotes with no quote doubled
NotDoubled(b) == b

RECURSIVE Doubled(_)
\* every byte written, a quote written twice
Doubled(b) ==
  IF b = <<>> THEN <<>>
  ELSE (IF b[1] = 34 THEN <<34, 34>> ELSE <<b[1]>>) \o Doubled(Tail(b))

\* the bytes csv_write_slice writes for s
csv_write_slice(S, s) ==
  LET b == SliceBytes(S, s)
      need_quote == \E k \in 1..s.len : b[k] \in {44, 34, 10, 13}
  IN IF ~need_quote THEN b ELSE <<34>> \o Doubled(b) \o <<34>>

KVAt(S, l, i) == PtrAdd(l.items, i * SizeOf.KV)

RECURSIVE KvGetLoop(_, _, _, _)
KvGetLoop(S, l, key, i) ==
  IF i >= l.len THEN slice_from_cstr(CStr.empty)
  ELSE IF slice_eq(S, GetSlice(S, KVAt(S, l, i), 0), key)
    THEN GetSlice(S, KVAt(S, l, i), 16)
  ELSE KvGetLoop(S, l, key, i + 1)

\* kv_get with the text null, not the empty string, for a key that is not bound
RECURSIVE KvGetLast(_, _, _, _)
\* kv_get scanning from the end of the list
KvGetLast(S, l, key, n) ==
  IF n = 0 THEN slice_from_cstr(CStr.empty)
  ELSE IF slice_eq(S, GetSlice(S, KVAt(S, l, n - 1), 0), key)
    THEN GetSlice(S, KVAt(S, l, n - 1), 16)
  ELSE KvGetLast(S, l, key, n - 1)

\* kv_get giving the pair added last
kv_get_last(S, l, key) == KvGetLast(S, l, key, l.len)

kv_get_null(S, l, key) ==
  IF \E k \in 0..(l.len - 1) : slice_eq(S, GetSlice(S, KVAt(S, l, k), 0), key)
  THEN KvGetLoop(S, l, key, 0)
  ELSE slice_from_cstr(CStr.null)

kv_get(S, l, key) == KvGetLoop(S, l, key, 0)

\* ------------------------------------------------------- Top-level parsing

objlist_push(S, ol, obj) ==
  LET Put(S2, ol1) ==
        IF Failed(S2) THEN S2
        ELSE Ret(SetW(S2, PtrAdd(ol1.objs, ol1.len * SizeOf.ptr), 0, obj),
                 [ol1 EXCEPT !.len = ol1.len + 1])
      Grown(S1, newcap) == Put(S1, [ol EXCEPT !.objs = S1.ret, !.cap = newcap])
      Grow(oldcap, newcap) ==
        Grown(arena_grow(S, "perm", ol.objs, oldcap * SizeOf.ptr, newcap * SizeOf.ptr, 8),
              newcap)
  IN IF ol.len = ol.cap THEN Grow(ol.cap, IF ol.cap # 0 THEN ol.cap * 2 ELSE 16)
     ELSE Put(S, ol)

EmptyObjList == [objs |-> NULL, len |-> 0, cap |-> 0]

RECURSIVE TopLoopSkip(_, _, _, _)
\* the loop of parse_top passing over an element that is not an object
TopLoopSkip(S, top, ol, i) ==
  LET Again(S1) == IF Failed(S1) THEN S1 ELSE TopLoopSkip(S1, top, S1.ret, i + 1)
      At(it) ==
        IF TypeOf(S, it) # J_OBJECT THEN TopLoopSkip(S, top, ol, i + 1)
        ELSE Again(objlist_push(S, ol, it))
  IN IF i >= GetInt(S, top, 16) THEN Ret(S, ol) ELSE At(ItemAt(S, top, i))

RECURSIVE TopLoopUnchecked(_, _, _, _)
\* the loop of parse_top without the test of the element's type
TopLoopUnchecked(S, top, ol, i) ==
  LET Again(S1) == IF Failed(S1) THEN S1 ELSE TopLoopUnchecked(S1, top, S1.ret, i + 1)
  IN IF i >= GetInt(S, top, 16) THEN Ret(S, ol)
     ELSE Again(objlist_push(S, ol, ItemAt(S, top, i)))

RECURSIVE TopLoop(_, _, _, _)
\* the loop of parse_top over the elements of a top-level array
TopLoop(S, top, ol, i) ==
  LET Again(S1) == IF Failed(S1) THEN S1 ELSE TopLoop(S1, top, S1.ret, i + 1)
      At(it) ==
        IF TypeOf(S, it) # J_OBJECT THEN die(S, "top array must contain objects")
        ELSE Again(objlist_push(S, ol, it))
  IN IF i >= GetInt(S, top, 16) THEN Ret(S, ol) ELSE At(ItemAt(S, top, i))

\* parse_top dying on anything but whitespace after the top-level value
parse_top_strict(S0) ==
  LET Top(S2, top) ==
        IF p_peek(S2) # EOF THEN die(S2, "trailing characters")
        ELSE IF TypeOf(S2, top) = J_OBJECT THEN objlist_push(S2, EmptyObjList, top)
        ELSE IF TypeOf(S2, top) = J_ARRAY THEN TopLoop(S2, top, EmptyObjList, 0)
        ELSE die(S2, "top-level JSON must be object or array of objects")
      Parsed(S1) == IF Failed(S1) THEN S1 ELSE Top(p_skip_ws(S1), S1.ret)
  IN Parsed(parse_value(p_skip_ws(S0)))

parse_top(S0) ==
  LET Top(S2, top) ==
        IF TypeOf(S2, top) = J_OBJECT THEN objlist_push(S2, EmptyObjList, top)
        ELSE IF TypeOf(S2, top) = J_ARRAY THEN TopLoop(S2, top, EmptyObjList, 0)
        ELSE die(S2, "top-level JSON must be object or array of objects")
      Parsed(S1) == IF Failed(S1) THEN S1 ELSE Top(p_skip_ws(S1), S1.ret)
  IN Parsed(parse_value(p_skip_ws(S0)))

\* ------------------------------------------------------------------ inputs
\* The documents the program is run on: every sequence of at most MaxTokens
\* lexical tokens, every one-record document of at most MaxMembers members
\* from a pool, every array of at most MaxRecords elements from a pool, and
\* a list of further documents.

MaxTokens == 4
MaxMembers == 2
MaxRecords == 3
MaxEscapes == 2

RECURSIVE Concat(_)
Concat(ss) == IF ss = <<>> THEN <<>> ELSE Head(ss) \o Concat(Tail(ss))

RECURSIVE Join(_, _)
Join(ss, sep) ==
  IF ss = <<>> THEN <<>>
  ELSE IF Len(ss) = 1 THEN ss[1]
  ELSE ss[1] \o sep \o Join(Tail(ss), sep)

SeqsUpTo(X, n) == UNION {[1..k -> X] : k \in 0..n}

RawTokens ==
  {Bytes(<<"{">>), Bytes(<<"}">>), Bytes(<<"[">>), Bytes(<<"]">>), Bytes(<<",">>),
   Bytes(<<":">>), Bytes(<<"\"", "a", "\"">>), Bytes(<<"1">>), Bytes(<<"0">>),
   Bytes(<<" ">>)}

RawDocs == {Concat(ts) : ts \in SeqsUpTo(RawTokens, MaxTokens)}

MemberPool ==
  {Bytes(<<"\"", "a", "\"", ":", "1">>),
   Bytes(<<"\"", "b", "\"", ":", "0", ".", "5", "0">>),
   Bytes(<<"\"", "a", "\"", ":", "{", "\"", "b", "\"", ":", "1", ",",
           "\"", "c", "\"", ":", "2", "}">>),
   Bytes(<<"\"", "a", "\"", ":", "[", "1", ",", "2", ",", "3", "]">>),
   Bytes(<<"\"", "a", "\"", ":", "[", "1", ",", "{", "\"", "x", "\"", ":", "1", "}", "]">>),
   Bytes(<<"\"", "b", "\"", ":", "\"", "x", ",", "y", "\"">>),
   Bytes(<<"\"", "d", "\"", ":", "\"", "a", "\\", "n", "b", "\"">>),
   Bytes(<<"\"", "n", "\"", ":", "[", "n", "u", "l", "l", ",", "t", "r", "u", "e", ",",
           "\"", "s", "\"", ",", "-", "1", "e", "+", "2", "]">>),
   Bytes(<<"\"", "t", "\"", ":", "t", "r", "u", "e">>),
   Bytes(<<"\"", "f", "\"", ":", "f", "a", "l", "s", "e">>),
   Bytes(<<"\"", "n", "\"", ":", "n", "u", "l", "l">>),
   Bytes(<<"\"", "e", "\"", ":", "{", "}">>),
   Bytes(<<"\"", "e", "\"", ":", "[", "]">>),
   Bytes(<<"\"", "\"", ":", "{", "\"", "a", "\"", ":", "1", "}">>),
   Bytes(<<"\"", "a", ".", "b", "\"", ":", "2">>),
   Bytes(<<"\"", "x", "\"", ":", "{", "\"", "y", "\"", ":", "{", "\"", "a", "\"", ":",
           "[", "[", "1", "]", ",", "\"", "\\", "u", "0", "0", "4", "1", "\"", "]",
           ",", "\"", "b", "\"", ":", "7", "}", "}">>)}

MemberDocs ==
  {Bytes(<<"{">>) \o Join(ms, Bytes(<<",">>)) \o Bytes(<<"}">>) :
     ms \in SeqsUpTo(MemberPool, MaxMembers)}

RecordPool ==
  {Bytes(<<"{", "\"", "a", "\"", ":", "1", "}">>),
   Bytes(<<"{", "\"", "b", "\"", ":", "2", "}">>),
   Bytes(<<"{", "\"", "c", "\"", ":", "{", "\"", "d", "\"", ":", "4", "}", ",",
           "\"", "a", "\"", ":", "\"", "q", "\"", "}">>),
   Bytes(<<"{", "\"", "b", "\"", ":", "[", "1", ",", "2", "]", ",",
           "\"", "c", ".", "d", "\"", ":", "5", ",", "\"", "b", "\"", ":", "6", "}">>),
   Bytes(<<"{", "}">>),
   Bytes(<<"1">>),
   Bytes(<<"[", "{", "}", "]">>)}

RecordDocs ==
  {Bytes(<<"[">>) \o Join(rs, Bytes(<<",">>)) \o Bytes(<<"]">>) :
     rs \in SeqsUpTo(RecordPool, MaxRecords)}

SeedDocs ==
  {Bytes(<<"{">>),
   Bytes(<<"[", "1", ",", "]">>),
   Bytes(<<"{", "\"", "a", "\"", ":", "}">>),
   Bytes(<<"{", "\"", "a", "\"", " ", "1", "}">>),
   Bytes(<<"4", "2">>),
   Bytes(<<"[", "1", ",", "2", "]">>),
   Bytes(<<"{", "\"", "a", "\"", ":", " ", "0", "0", "7", "}">>),
   Bytes(<<"{", "\"", "a", "\"", ":", " ", "0", ".", "5", "0", "}">>),
   Bytes(<<"{", "\"", "a", "\"", ":", "[", "0", "1", "]", "}">>),
   Bytes(<<"{", "\"", "a", "\"", ":", "-", "0", "1", "}">>),
   Bytes(<<" ", "LF", "[", " ", "{", "TAB", "\"", "a", "\"", " ", ":", "CR", "1", " ", "}",
           " ", ",", " ", "{", "\"", "b", "\"", ":", "2", "}", " ", "]", "LF">>),
   Bytes(<<"{", "\"", "a", "\"", ":", "1", "}", " ", "x">>),
   Bytes(<<"{", "\"", "a", "\"", ":", "1", "}", "0", "1">>),
   Bytes(<<"{", "\"", "a", "\\", "\"", "b", "\"", ":", "\"", "\\", "u", "0", "0", "e", "9",
           "\"", "}">>),
   Bytes(<<"{", "\"", "a", "\"", ":", "\"", "x", "\\", "q", "\"", "}">>),
   Bytes(<<"{", "\"", "a", "\"", ":", "\"", "x">>),
   Bytes(<<"{", "\"", "a", "\"", ":", "\"", "x", "\\">>),
   Bytes(<<"{", "\"", "a", "\"", ":", "t", "r", "u">>),
   Bytes(<<"{", "\"", "a", "\"", ":", "1", ".", "}">>),
   Bytes(<<"{", "\"", "a", "\"", ":", "1", "e", "}">>),
   Bytes(<<"{", "\"", "a", "\"", ":", "-", "}">>),
   Bytes(<<"{", "\"", "a", "\"", ":", "1", "E", "-", "2", ",", "\"", "b", "\"", ":",
           "0", "e", "0", "}">>),
   Bytes(<<"VT", "{", "}">>),
   Bytes(<<"{", "FF", "}">>)}

\* the pieces of a string token: the eight short escapes, \u escapes at and
\* above 0x7F, an unknown escape, a \u escape with a digit that is not hex,
\* and a plain byte
EscapePool ==
  {Bytes(<<"\\", "n">>), Bytes(<<"\\", "\"">>), Bytes(<<"\\", "\\">>),
   Bytes(<<"\\", "/">>), Bytes(<<"\\", "b">>), Bytes(<<"\\", "f">>),
   Bytes(<<"\\", "r">>), Bytes(<<"\\", "t">>),
   Bytes(<<"\\", "u", "0", "0", "4", "1">>), Bytes(<<"\\", "u", "0", "0", "e", "9">>),
   Bytes(<<"\\", "q">>), Bytes(<<"\\", "u", "0", "0", "G", "1">>), Bytes(<<"x">>)}

\* {"k":"<pieces>"} and the same document cut off inside the string
EscapeDocs ==
  UNION {{Bytes(<<"{", "\"", "k", "\"", ":", "\"">>) \o Concat(ps) \o Bytes(<<"\"", "}">>),
          Bytes(<<"{", "\"", "k", "\"", ":", "\"">>) \o Concat(ps)} :
           ps \in SeqsUpTo(EscapePool, MaxEscapes)}

\* further strings: \u escapes around 0x7F, a NUL, a surrogate pair, \u cut
\* short by the closing quote, a backslash at the end of the input
EscapeSeeds ==
  {Bytes(<<"{", "\"", "k", "\"", ":", "\"", "\\", "u", "0", "0", "7", "F", "\\", "u",
           "0", "0", "8", "0", "\"", "}">>),
   Bytes(<<"{", "\"", "k", "\"", ":", "\"", "\\", "u", "0", "0", "0", "0", "\"", "}">>),
   Bytes(<<"{", "\"", "k", "\"", ":", "\"", "\\", "u", "D", "8", "3", "D", "\\", "u",
           "D", "E", "0", "0", "\"", "}">>),
   Bytes(<<"{", "\"", "k", "\"", ":", "\"", "\\", "u", "1", "2", "\"", "}">>),
   Bytes(<<"{", "\"", "k", "\\">>),
   Bytes(<<"{", "\"", "k", "\\", "u", "0", "0">>)}

\* one more member than the KV list has room for when it is first allocated
WideMembers == 17

\* a record of WideMembers members: an object first (two dotted keys built
\* in the string buffer), strings in between, an array of primitives last
WideDoc ==
  Bytes(<<"{">>)
  \o Join([k \in 1..WideMembers |->
             IF k = 1
             THEN Bytes(<<"\"", "a", "\"", ":", "{", "\"", "b", "\"", ":", "1", ",",
                          "\"", "c", "\"", ":", "2", "}">>)
             ELSE IF k = WideMembers
               THEN Bytes(<<"\"", "a", "\"", ":", "[", "1", ",", "2", ",", "3", "]">>)
             ELSE Bytes(<<"\"", "b", "\"", ":", "\"", "x", ",", "y", "\"">>)],
          Bytes(<<",">>))
  \o Bytes(<<"}">>)

Inputs ==
  RawDocs \cup MemberDocs \cup RecordDocs \cup SeedDocs \cup EscapeDocs \cup EscapeSeeds
  \cup {WideDoc}

\* ------------------------------------------------------------------- main

VARIABLES
  input,      \* the input buffer
  A_perm,     \* the permanent arena
  A_tmp,      \* the scratch arena
  G_tmpbuf1,  \* the reusable string buffer
  p_pos,      \* the parser's position
  objs,       \* the record list
  headers,    \* the key set
  kv,         \* the KV list of the record flattened last
  i,          \* the record index of the running pass
  pc,         \* "parse", "pass1", "pass2", "done", or "exit" after die()
  out,        \* the bytes written to stdout
  err,        \* the message of die()
  call,       \* the arena call made last, when the arena is driven call by call
  marks       \* the marks arena_mark has returned

vars ==
  <<input, A_perm, A_tmp, G_tmpbuf1, p_pos, objs, headers, kv, i, pc, out, err,
    call, marks>>

\* what the arena calls leave alone but the program's run writes
run_vars == <<input, G_tmpbuf1, p_pos, objs, headers, kv, i, out>>

\* what the program's run leaves alone
call_vars == <<call, marks>>

NoCall ==
  [k |-> 0, op |-> "init", which |-> "", n |-> 0, align |-> 1, old |-> NULL,
   old_bytes |-> 0, before |-> arena_init(0), p |-> NULL]

\* the functions' view of the program state
Cur ==
  [input |-> input, pos |-> p_pos, len |-> Len(input), perm |-> A_perm,
   tmp |-> A_tmp, sb |-> G_tmpbuf1, err |-> "", ret |-> NULL]

Init ==
  /\ input \in Inputs
  /\ A_perm = arena_init(Len(input) * 16 + 67108864)
  /\ A_tmp = arena_init(Len(input) * 2 + 33554432)
  /\ G_tmpbuf1 = strbuf_init(4096)
  /\ p_pos = 0
  /\ objs = EmptyObjList
  /\ headers = EmptyKeySet
  /\ kv = EmptyList
  /\ i = 0
  /\ pc = "parse"
  /\ out = <<>>
  /\ err = ""
  /\ call = NoCall
  /\ marks = {}

\* objs.objs[i]
ObjAt(S, ol, k) == GetW(S, PtrAdd(ol.objs, k * SizeOf.ptr), 0)

EmptySlice == slice_make(Ptr("lit", CStr.empty), 0)

Parse ==
  /\ pc = "parse"
  /\ \E S \in {parse_top(p_init(input, A_perm, A_tmp, G_tmpbuf1))} :
        /\ A_perm' = S.perm
        /\ G_tmpbuf1' = S.sb
        /\ p_pos' = S.pos
        /\ err' = S.err
        /\ pc' = IF Failed(S) THEN "exit" ELSE "pass1"
        /\ objs' = IF Failed(S) THEN objs ELSE S.ret
  /\ UNCHANGED <<input, A_tmp, headers, kv, i, out, call_vars>>

RECURSIVE KeysLoop(_, _, _, _)
\* for (j = 0; j < kv.len; j++) keyset_add(&headers, kv.items[j].key)
KeysLoop(S, s, l, j) ==
  LET Again(S1) == IF Failed(S1) THEN S1 ELSE KeysLoop(S1, S1.ret, l, j + 1)
  IN IF j >= l.len THEN Ret(S, s)
     ELSE Again(keyset_add(S, s, GetSlice(S, KVAt(S, l, j), 0)))

\* one iteration of pass 1: flatten record i, fold its keys into the header
Pass1 ==
  /\ pc = "pass1"
  /\ i < objs.len
  /\ \E S1 \in {flatten_object(Cur, ObjAt(Cur, objs, i), EmptySlice, EmptyList)} :
     \E S2 \in {IF Failed(S1) THEN S1 ELSE KeysLoop(S1, headers, S1.ret, 0)} :
     \E S \in {IF Failed(S2) THEN S2
               ELSE arena_reset(S2, "tmp", arena_mark(Cur, "tmp"))} :
        /\ A_perm' = S.perm
        /\ A_tmp' = S.tmp
        /\ G_tmpbuf1' = S.sb
        /\ err' = S.err
        /\ kv' = IF Failed(S1) THEN kv ELSE S1.ret
        /\ headers' = IF Failed(S) THEN headers ELSE S2.ret
        /\ pc' = IF Failed(S) THEN "exit" ELSE pc
        /\ i' = IF Failed(S) THEN i ELSE i + 1
  /\ UNCHANGED <<input, p_pos, objs, out, call_vars>>

RECURSIVE HeaderRow(_, _, _)
HeaderRow(S, s, c) ==
  IF c >= s.len THEN <<10>>
  ELSE (IF c # 0 THEN <<44>> ELSE <<>>) \o csv_write_slice(S, KeyAt(S, s, c))
       \o HeaderRow(S, s, c + 1)

PrintHeader ==
  /\ pc = "pass1"
  /\ i = objs.len
  /\ out' = out \o HeaderRow(Cur, headers, 0)
  /\ pc' = "pass2"
  /\ i' = 0
  /\ UNCHANGED <<input, A_perm, A_tmp, G_tmpbuf1, p_pos, objs, headers, kv, err, call_vars>>

RECURSIVE Row(_, _, _, _)
Row(S, s, l, c) ==
  IF c >= s.len THEN <<10>>
  ELSE (IF c # 0 THEN <<44>> ELSE <<>>)
       \o csv_write_slice(S, kv_get(S, l, KeyAt(S, s, c)))
       \o Row(S, s, l, c + 1)

\* one iteration of pass 2: flatten record i, write its row
Pass2 ==
  /\ pc = "pass2"
  /\ i < objs.len
  /\ \E S1 \in {flatten_object(Cur, ObjAt(Cur, objs, i), EmptySlice, EmptyList)} :
     \E S \in {IF Failed(S1) THEN S1
               ELSE arena_reset(S1, "tmp", arena_mark(Cur, "tmp"))} :
        /\ A_perm' = S.perm
        /\ A_tmp' = S.tmp
        /\ G_tmpbuf1' = S.sb
        /\ err' = S.err
        /\ kv' = IF Failed(S1) THEN kv ELSE S1.ret
        /\ out' = IF Failed(S1) THEN out ELSE out \o Row(S1, headers, S1.ret, 0)
        /\ pc' = IF Failed(S) THEN "exit" ELSE pc
        /\ i' = IF Failed(S) THEN i ELSE i + 1
  /\ UNCHANGED <<input, p_pos, objs, headers, call_vars>>

arena_destroy == [cap |-> 0, off |-> 0, mem |-> EmptyMem]

strbuf_destroy == [mem |-> EmptyMem, len |-> 0, cap |-> 0]

\* file_buffer_free: data = NULL, len = 0
file_buffer_free == <<>>

\* the end of main: the buffers, the arenas and the input are given back.
\* G_tmpbuf2, initialised and destroyed by main and used by nothing, is no
\* variable here.
Cleanup ==
  /\ pc = "pass2"
  /\ i = objs.len
  /\ G_tmpbuf1' = strbuf_destroy
  /\ A_tmp' = arena_destroy
  /\ A_perm' = arena_destroy
  /\ input' = file_buffer_free
  /\ pc' = "done"
  /\ UNCHANGED <<p_pos, objs, headers, kv, i, out, err, call_vars>>

Next == Parse \/ Pass1 \/ PrintHeader \/ Pass2 \/ Cleanup

Spec == Init /\ [][Next]_vars

\* ----------------------------------------------------- cut-off documents
\* The program run on documents cut off at every byte: each document of
\* one member of the pool, and each seed document, up to its n-th byte.

CutDocs ==
  {Bytes(<<"{">>) \o m \o Bytes(<<"}">>) : m \in MemberPool} \cup SeedDocs \cup EscapeSeeds

CutInputs == UNION {{SubSeq(d, 1, n) : n \in 0..Len(d)} : d \in CutDocs}

CutInit ==
  /\ input \in CutInputs
  /\ A_perm = arena_init(Len(input) * 16 + 67108864)
  /\ A_tmp = arena_init(Len(input) * 2 + 33554432)
  /\ G_tmpbuf1 = strbuf_init(4096)
  /\ p_pos = 0
  /\ objs = EmptyObjList
  /\ headers = EmptyKeySet
  /\ kv = EmptyList
  /\ i = 0
  /\ pc = "parse"
  /\ out = <<>>
  /\ err = ""
  /\ call = NoCall
  /\ marks = {}

CutSpec == CutInit /\ [][Next]_vars

\* ------------------------------------------------ bytes after the value
\* The program on documents followed by more bytes: whitespace, another
\* value, closers, the start of a fraction or an exponent, a NUL.
Trailers ==
  {<<>>, Bytes(<<" ">>), Bytes(<<" ", "x">>), Bytes(<<"x">>),
   Bytes(<<"{", "\"", "b", "\"", ":", "2", "}">>), Bytes(<<" ", "LF", "TAB", "CR">>),
   Bytes(<<"]">>), Bytes(<<"}">>), Bytes(<<",">>), Bytes(<<".", "5">>),
   Bytes(<<"e", "1">>), Bytes(<<"\"">>), Bytes(<<"\\">>), <<0>>, Bytes(<<"[">>),
   Bytes(<<" ", "{", "\"", "a", "\"", ":">>), Bytes(<<"VT", ",">>)}

TrailInputs == {d \o tr : d \in CutDocs, tr \in Trailers}

TrailInit ==
  /\ input \in TrailInputs
  /\ A_perm = arena_init(Len(input) * 16 + 67108864)
  /\ A_tmp = arena_init(Len(input) * 2 + 33554432)
  /\ G_tmpbuf1 = strbuf_init(4096)
  /\ p_pos = 0
  /\ objs = EmptyObjList
  /\ headers = EmptyKeySet
  /\ kv = EmptyList
  /\ i = 0
  /\ pc = "parse"
  /\ out = <<>>
  /\ err = ""
  /\ call = NoCall
  /\ marks = {}

TrailSpec == TrailInit /\ [][Next]_vars

\* ------------------------------------------------------ the arena, by call
\* The arena functions driven one call at a time on one of the two arenas,
\* made small, so that a full arena, an unaligned offset and a reset to an
\* old mark are all met within a few calls.

MaxCap == 6

MaxSize == 3

MaxCalls == 3

Caps == (MaxCap - 1)..MaxCap

Sizes == 0..MaxSize

Aligns == {1, 4}

Arenas == {"perm", "tmp"}

\* slices of one or two bytes of the string literal "true"
DupSlices == {slice_make(Ptr("lit", CStr.true), n) : n \in 1..2}

ArenaInit ==
  /\ input = <<>>
  /\ \E which \in Arenas, c \in Caps :
        /\ A_perm = arena_init(c)
        /\ A_tmp = arena_init(c)
        /\ call = [NoCall EXCEPT !.which = which]
  /\ G_tmpbuf1 = strbuf_init(4096)
  /\ p_pos = 0
  /\ objs = EmptyObjList
  /\ headers = EmptyKeySet
  /\ kv = EmptyList
  /\ i = 0
  /\ pc = "arena"
  /\ out = <<>>
  /\ err = ""
  /\ marks = {}

\* the arena the calls are made on
Arena == ArenaOf(Cur, call.which)

\* the call op(n, align, old, old_bytes) has left state S
Called(S, op, n, align, old, old_bytes) ==
  /\ A_perm' = S.perm
  /\ A_tmp' = S.tmp
  /\ err' = S.err
  /\ pc' = IF Failed(S) THEN "exit" ELSE pc
  /\ call' = [k |-> call.k + 1, op |-> op, which |-> call.which, n |-> n,
              align |-> align, old |-> old, old_bytes |-> old_bytes,
              before |-> Arena, p |-> IF Failed(S) THEN NULL ELSE S.ret]
  /\ UNCHANGED <<marks, run_vars>>

Alloc ==
  /\ pc = "arena"
  /\ call.k < MaxCalls
  /\ \E n \in Sizes, align \in Aligns :
        Called(arena_alloc(Cur, call.which, n, align), "alloc", n, align, NULL, 0)

Alloc0 ==
  /\ pc = "arena"
  /\ call.k < MaxCalls
  /\ \E n \in Sizes, align \in Aligns :
        Called(arena_alloc0(Cur, call.which, n, align), "alloc0", n, align, NULL, 0)

SliceDup ==
  /\ pc = "arena"
  /\ call.k < MaxCalls
  /\ \E s \in DupSlices :
        Called(arena_slice_dup(Cur, call.which, s), "slice_dup", s.len + 1, 1, s.ptr, s.len)

\* what arena_grow may be given as old and old_bytes: nothing, or the
\* region the call before handed out
Olds ==
  {<<NULL, 0>>}
  \cup (IF call.op \in {"alloc", "alloc0", "slice_dup", "grow"} /\ call.p # NULL
        THEN {<<call.p, call.n>>}
        ELSE {})

\* memcpy past the end of the malloc'ed block is undefined: the bytes land
\* beyond the block, or the process is killed
GrowOutcomes(S, old_bytes) ==
  IF ~Failed(S) /\ S.ret.off + old_bytes > ArenaOf(S, call.which).cap
  THEN {S, die(S, "killed")}
  ELSE {S}

Grow ==
  /\ pc = "arena"
  /\ call.k < MaxCalls
  /\ \E align \in Aligns, new_bytes \in Sizes, o \in Olds :
     \E S \in GrowOutcomes(arena_grow(Cur, call.which, o[1], o[2], new_bytes, align),
                            IF o[1] = NULL THEN 0 ELSE o[2]) :
        Called(S, "grow", new_bytes, align, o[1], o[2])

\* arena_mark reads the offset and writes nothing
Mark ==
  /\ pc = "arena"
  /\ call.k < MaxCalls
  /\ marks' = marks \cup {arena_mark(Cur, call.which)}
  /\ UNCHANGED <<A_perm, A_tmp, err, pc, call, run_vars>>

Reset ==
  /\ pc = "arena"
  /\ call.k < MaxCalls
  /\ \E mark \in marks :
     \E S \in {arena_reset(Cur, call.which, mark)} :
        /\ A_perm' = S.perm
        /\ A_tmp' = S.tmp
        /\ call' = [NoCall EXCEPT !.k = call.k + 1, !.op = "reset", !.which = call.which,
                                  !.n = mark, !.before = Arena]
  /\ UNCHANGED <<err, pc, marks, run_vars>>

ArenaNext == Alloc \/ Alloc0 \/ SliceDup \/ Grow \/ Mark \/ Reset

ArenaSpec == ArenaInit /\ [][ArenaNext]_vars

\* --------------------------------------------------------------- reading
\* What the lists in memory hold, as byte sequences.

\* a KV list as the sequence of its <<key, value>> pairs
Pairs(S, l) ==
  [k \in 1..l.len |->
     <<SliceBytes(S, GetSlice(S, KVAt(S, l, k - 1), 0)),
       SliceBytes(S, GetSlice(S, KVAt(S, l, k - 1), 16))>>]

\* a key set as the sequence of its keys
HeaderKeys(S, s) == [k \in 1..s.len |-> SliceBytes(S, KeyAt(S, s, k - 1))]

\* the pairs flatten_object gives for record k (0-based) of the record list
PairsOf(R) == Pairs(R, R.ret)

RecordPairs(k) ==
  PairsOf(flatten_object(Cur, ObjAt(Cur, objs, k), EmptySlice, EmptyList))

KeysOfPairs(ps) == [j \in 1..Len(ps) |-> ps[j][1]]

RECURSIVE FirstSeen(_, _)
\* the elements of seq in order, each kept at its first occurrence only
FirstSeen(seq, acc) ==
  IF seq = <<>> THEN acc
  ELSE FirstSeen(Tail(seq),
                 IF \E k \in 1..Len(acc) : acc[k] = Head(seq) THEN acc
                 ELSE Append(acc, Head(seq)))

\* the flattened keys of records 0..n-1, record after record
KeysThrough(n) == Concat([k \in 1..n |-> KeysOfPairs(RecordPairs(k - 1))])

\* C1: during and after pass 1 the key set is the sequence of the distinct
\* flattened keys of the records scanned so far, each at the place of its first
\* occurrence, records in ascending order and each KV list in flatten order.
C1_HeaderFirstSeen ==
  (pc \in {"pass1", "pass2"}) =>
     HeaderKeys(Cur, headers)
       = FirstSeen(KeysThrough(IF pc = "pass1" THEN i ELSE objs.len), <<>>)

\* pass 1 is over three records, the third repeats a key of the first, and the
\* header is b,a: first-seen order, which is not the sorted order
C1_Witness ==
  /\ pc = "pass2"
  /\ objs.len = 3
  /\ KeysThrough(3) = <<Bytes(<<"b">>), Bytes(<<"a">>), Bytes(<<"b">>)>>
  /\ HeaderKeys(Cur, headers) = <<Bytes(<<"b">>), Bytes(<<"a">>)>>

\* a cell as the CSV writer must write it
Quoted(b) ==
  IF \E k \in 1..Len(b) : b[k] \in {44, 34, 10, 13}
  THEN <<34>> \o Doubled(b) \o <<34>>
  ELSE b

\* the value of the first pair of ps whose key is key, the empty string if none
Bound(ps, key) ==
  IF \E k \in 1..Len(ps) : ps[k][1] = key
  THEN ps[CHOOSE k \in 1..Len(ps) :
            ps[k][1] = key /\ \A j \in 1..(k - 1) : ps[j][1] # key][2]
  ELSE <<>>

\* a line of cells
Line(cells) == Join([c \in 1..Len(cells) |-> Quoted(cells[c])], <<44>>) \o <<10>>

RowOf(keys, ps) == Line([c \in 1..Len(keys) |-> Bound(ps, keys[c])])

RowsThrough(keys, n) == Concat([k \in 1..n |-> RowOf(keys, RecordPairs(k - 1))])

\* C2: during and after pass 2 the output is the header line followed by one
\* line per record written so far, in record order; a line has one cell per
\* header key, in header order, holding the value the record's KV list binds
\* to the key, or nothing when the list does not bind the key.
C2_RowPerRecord ==
  (pc = "pass2") =>
     out = Line(HeaderKeys(Cur, headers)) \o RowsThrough(HeaderKeys(Cur, headers), i)

\* both rows of [{"a":1},{"b":2}] are written: 1, and ,2 under the header a,b
C2_Witness ==
  /\ pc = "pass2"
  /\ i = 2
  /\ objs.len = 2
  /\ out = Bytes(<<"a", ",", "b", "LF", "1", ",", "LF", ",", "2", "LF">>)

\* the messages of the fatal errors raised while the document is parsed
ParseErrors ==
  {"unexpected character", "bad escape", "bad \\u escape", "unknown escape",
   "bad number", "bad number fraction", "bad number exponent", "bad array syntax",
   "object key must be string", "bad object syntax", "bad token", "unexpected EOF",
   "unknown value", "top array must contain objects",
   "top-level JSON must be object or array of objects"}

\* the malformed documents  {  [1,]  {"a":}  {"a" 1}  42  [1,2]
MalformedDocs ==
  {Bytes(<<"{">>),
   Bytes(<<"[", "1", ",", "]">>),
   Bytes(<<"{", "\"", "a", "\"", ":", "}">>),
   Bytes(<<"{", "\"", "a", "\"", " ", "1", "}">>),
   Bytes(<<"4", "2">>),
   Bytes(<<"[", "1", ",", "2", "]">>)}

\* C3: each of the six malformed documents ends in a fatal error of the
\* parser, and a run that ended in a fatal error of the parser has written
\* nothing: no header line and no row.
C3_FatalBeforeOutput ==
  /\ (input \in MalformedDocs /\ pc # "parse") => (pc = "exit" /\ err \in ParseErrors)
  /\ (pc = "exit" /\ err \in ParseErrors) => out = <<>>

\* the run on [1,2] has ended in the fatal error of parse_top, nothing written
C3_Witness ==
  /\ input = Bytes(<<"[", "1", ",", "2", "]">>)
  /\ pc = "exit"
  /\ err = "top array must contain objects"
  /\ out = <<>>

\* the JSON whitespace bytes
JsonWs == {32, 9, 10, 13}

\* the first byte of b that is not whitespace, EOF if there is none
FirstByte(b) ==
  IF \A k \in 1..Len(b) : b[k] \in JsonWs THEN EOF
  ELSE b[CHOOSE k \in 1..Len(b) : b[k] \notin JsonWs /\ \A j \in 1..(k - 1) : b[j] \in JsonWs]

\* the bytes a scalar can start with: a quote, a sign, a digit, t, f, n
ScalarStart == {34, 45, 116, 102, 110} \cup 48..57

\* the top-level value: the first node the parser allocates
TopNode == Ptr("perm", 0)

\* the documents [r1,...,rn] over the pool with an element that is no object
BadArrayDocs ==
  {Bytes(<<"[">>) \o Join(rs, Bytes(<<",">>)) \o Bytes(<<"]">>) :
     rs \in {q \in SeqsUpTo(RecordPool, MaxRecords) :
               \E k \in 1..Len(q) : q[k][1] # 123}}

\* C4: when parse_top has succeeded the top-level value is an Object and the
\* record list holds just it, or it is an Array of Objects and the record list
\* holds its elements in array order; a document that is empty or all
\* whitespace, that starts a scalar, or that is an array with an element that
\* is no object, does not get past parse_top.
C4_TopLevelShape ==
  /\ (pc \in {"pass1", "pass2"}) =>
        \/ /\ TypeOf(Cur, TopNode) = J_OBJECT
           /\ objs.len = 1
           /\ ObjAt(Cur, objs, 0) = TopNode
        \/ /\ TypeOf(Cur, TopNode) = J_ARRAY
           /\ objs.len = GetInt(Cur, TopNode, 16)
           /\ \A k \in 0..(objs.len - 1) :
                 /\ ObjAt(Cur, objs, k) = ItemAt(Cur, TopNode, k)
                 /\ TypeOf(Cur, ObjAt(Cur, objs, k)) = J_OBJECT
  /\ (pc \notin {"parse", "done"}
      /\ (FirstByte(input) \in ScalarStart \cup {EOF} \/ input \in BadArrayDocs))
        => (pc = "exit" /\ err \in ParseErrors)

\* parse_top has succeeded on an array of three objects: three records, the
\* array's elements in order
C4_Witness ==
  /\ pc = "pass1"
  /\ i = 0
  /\ TypeOf(Cur, TopNode) = J_ARRAY
  /\ GetInt(Cur, TopNode, 16) = 3
  /\ objs.len = 3
  /\ \A k \in 0..2 : ObjAt(Cur, objs, k) = ItemAt(Cur, TopNode, k)

\* ------------------------------------------------------ the parsed tree
\* The JSON value under a node of the tree in A_perm, read back as a value:
\* [t, members] for an object, [t, items] for an array, [t, b] for a boolean,
\* [t, text, at] for a string or a number (at: where its slice points), [t]
\* for null.

RECURSIVE Tree(_, _)
Tree(S, v) ==
  CASE TypeOf(S, v) = J_OBJECT ->
         [t |-> J_OBJECT,
          members |->
            [k \in 1..GetInt(S, v, 16) |->
               [key |-> SliceBytes(S, GetSlice(S, MemberAt(S, v, k - 1), 0)),
                value |-> Tree(S, GetW(S, MemberAt(S, v, k - 1), 16))]]]
    [] TypeOf(S, v) = J_ARRAY ->
         [t |-> J_ARRAY,
          items |-> [k \in 1..GetInt(S, v, 16) |-> Tree(S, ItemAt(S, v, k - 1))]]
    [] TypeOf(S, v) = J_BOOL -> [t |-> J_BOOL, b |-> GetInt(S, v, 8)]
    [] TypeOf(S, v) \in {J_NUMBER, J_STRING} ->
         [t |-> TypeOf(S, v), text |-> SliceBytes(S, GetSlice(S, v, 8)),
          at |-> GetSlice(S, v, 8)]
    [] OTHER -> [t |-> TypeOf(S, v)]

\* the key of a member under a prefix
DotKey(prefix, k) == IF prefix = <<>> THEN k ELSE prefix \o <<46>> \o k

RECURSIVE Leaves(_, _)
\* the <<key, value>> of every value under the object n that is no object,
\* depth first in member order, prefix being the key of n
Leaves(n, prefix) ==
  Concat([k \in 1..Len(n.members) |->
            IF n.members[k].value.t = J_OBJECT
            THEN Leaves(n.members[k].value, DotKey(prefix, n.members[k].key))
            ELSE << <<DotKey(prefix, n.members[k].key), n.members[k].value>> >>])

IsPrimitive(n) == n.t \in {J_NULL, J_BOOL, J_NUMBER, J_STRING}

\* the string form of a primitive
Form(n) ==
  CASE n.t = J_NULL -> Bytes(<<"n", "u", "l", "l">>)
    [] n.t = J_BOOL -> IF n.b # 0 THEN Bytes(<<"t", "r", "u", "e">>)
                       ELSE Bytes(<<"f", "a", "l", "s", "e">>)
    [] OTHER -> n.text

\* an element of an array that is serialized
Shown(n) ==
  CASE n.t = J_OBJECT -> Bytes(<<"{", ".", ".", ".", "}">>)
    [] n.t = J_ARRAY -> Bytes(<<"[", ".", ".", ".", "]">>)
    [] n.t = J_STRING -> <<34>> \o n.text \o <<34>>
    [] OTHER -> Form(n)

\* the record flattened last: record i - 1 of the running pass
LastRecord == Tree(Cur, ObjAt(Cur, objs, i - 1))

Flattened == pc \in {"pass1", "pass2"} /\ i > 0

Example(doc) == Flattened /\ input = doc

\* C5: the KV list of a flattened record has one pair per value of the record
\* that is no object, in depth-first member order, and the key of a pair is the
\* member keys on the way to the value joined with dots, a member key under an
\* empty prefix standing alone; {"a":{"b":1,"c":2}} gives (a.b,1),(a.c,2).
C5_DottedKeys ==
  /\ Flattened =>
        KeysOfPairs(Pairs(Cur, kv)) = KeysOfPairs(Leaves(LastRecord, <<>>))
  /\ Example(Bytes(<<"{", "\"", "a", "\"", ":", "{", "\"", "b", "\"", ":", "1", ",",
                     "\"", "c", "\"", ":", "2", "}", "}">>)) =>
        Pairs(Cur, kv) = << <<Bytes(<<"a", ".", "b">>), Bytes(<<"1">>)>>,
                            <<Bytes(<<"a", ".", "c">>), Bytes(<<"2">>)>> >>

\* a record with a value three objects deep is flattened: x.y.a and x.y.b
C5_Witness ==
  /\ Flattened
  /\ \E k \in 1..kv.len : Pairs(Cur, kv)[k][1] = Bytes(<<"x", ".", "y", ".", "b">>)
  /\ Pairs(Cur, kv)[1][1] = Bytes(<<"x", ".", "y", ".", "a">>)

\* the pairs of the KV list whose value in the record is an array of primitives
PrimitiveArrays(ls) ==
  {k \in 1..Len(ls) : ls[k][2].t = J_ARRAY
                      /\ \A j \in 1..Len(ls[k][2].items) : IsPrimitive(ls[k][2].items[j])}

\* the pairs of the KV list whose value in the record is an array with an
\* object or an array among its elements
ComplexArrays(ls) ==
  {k \in 1..Len(ls) : ls[k][2].t = J_ARRAY
                      /\ \E j \in 1..Len(ls[k][2].items) : ~IsPrimitive(ls[k][2].items[j])}

PrimitiveLeaves(ls) == {k \in 1..Len(ls) : IsPrimitive(ls[k][2])}

JoinedForms(ls, ps) ==
  /\ Len(ps) = Len(ls)
  /\ \A k \in PrimitiveArrays(ls) :
        /\ ps[k][1] = ls[k][1]
        /\ ps[k][2] = Join([j \in 1..Len(ls[k][2].items) |-> Form(ls[k][2].items[j])], <<59>>)

\* C6: an array of primitives is one pair of the KV list, under the key of the
\* array, and its value is the string forms of the elements in order with a
\* semicolon between two of them; {"a":[1,2,3]} gives a = 1;2;3.
C6_PrimitiveArrayJoined ==
  /\ Flattened => JoinedForms(Leaves(LastRecord, <<>>), Pairs(Cur, kv))
  /\ Example(Bytes(<<"{", "\"", "a", "\"", ":", "[", "1", ",", "2", ",", "3", "]", "}">>)) =>
        Pairs(Cur, kv) = << <<Bytes(<<"a">>), Bytes(<<"1", ";", "2", ";", "3">>)>> >>

\* the record {"n":[null,true,"s",-1e+2]} is flattened to n = null;true;s;-1e+2
C6_Witness ==
  /\ Flattened
  /\ kv.len = 1
  /\ PrimitiveArrays(Leaves(LastRecord, <<>>)) = {1}
  /\ Pairs(Cur, kv)[1] = <<Bytes(<<"n">>),
                           Bytes(<<"n", "u", "l", "l", ";", "t", "r", "u", "e", ";", "s",
                                   ";", "-", "1", "e", "+", "2">>)>>

Serialized(ls, ps) ==
  /\ Len(ps) = Len(ls)
  /\ \A k \in ComplexArrays(ls) :
        /\ ps[k][1] = ls[k][1]
        /\ ps[k][2] = <<91>>
                      \o Join([j \in 1..Len(ls[k][2].items) |-> Shown(ls[k][2].items[j])],
                              <<44>>)
                      \o <<93>>

\* C7: an array with an object or an array among its elements is one pair of
\* the KV list, under the key of the array; its value is [ and ] around the
\* elements with a comma between two of them, an object element written {...}
\* and an array element [...], and nothing inside the array gets a key of its
\* own; {"a":[1,{"x":1}]} gives a = [1,{...}].
C7_ComplexArraySerialized ==
  /\ Flattened => Serialized(Leaves(LastRecord, <<>>), Pairs(Cur, kv))
  /\ Example(Bytes(<<"{", "\"", "a", "\"", ":", "[", "1", ",", "{", "\"", "x", "\"", ":",
                     "1", "}", "]", "}">>)) =>
        Pairs(Cur, kv) = << <<Bytes(<<"a">>),
                              Bytes(<<"[", "1", ",", "{", ".", ".", ".", "}", "]">>)>> >>

\* the record {"x":{"y":{"a":[[1],"A"],"b":7}}} is flattened: x.y.a is the
\* serialized array [[...],"A"], followed by x.y.b
C7_Witness ==
  /\ Flattened
  /\ kv.len = 2
  /\ ComplexArrays(Leaves(LastRecord, <<>>)) = {1}
  /\ Pairs(Cur, kv)[1][2] = Bytes(<<"[", "[", ".", ".", ".", "]", ",", "\"", "A", "\"", "]">>)

\* the bytes a number token is made of
NumChars == {43, 45, 46, 69, 101} \cup 48..57

\* s is a slice of the input that begins and ends where a run of NumChars does
WholeToken(s) ==
  /\ s.ptr.base = "in"
  /\ s.len > 0
  /\ \A k \in 1..s.len : input[s.ptr.off + k] \in NumChars
  /\ s.ptr.off > 0 => input[s.ptr.off] \notin NumChars
  /\ s.ptr.off + s.len < Len(input) => input[s.ptr.off + s.len + 1] \notin NumChars

PrimitiveForms(ls, l) ==
  /\ l.len = Len(ls)
  /\ \A k \in PrimitiveLeaves(ls) :
        /\ Pairs(Cur, l)[k][2] = Form(ls[k][2])
        /\ ls[k][2].t = J_NUMBER =>
              /\ GetSlice(Cur, KVAt(Cur, l, k - 1), 16) = ls[k][2].at
              /\ WholeToken(ls[k][2].at)

\* C8: a primitive value of a record is bound to its string form: null, true
\* or false for a null or a boolean, the decoded content for a string, and
\* for a number the bytes of its token as they stand in the input, the slice
\* being the whole token in the input buffer; {"a": 0.50} gives 0.50.
C8_PrimitiveStringForm ==
  /\ Flattened => PrimitiveForms(Leaves(LastRecord, <<>>), kv)
  /\ Example(Bytes(<<"{", "\"", "a", "\"", ":", " ", "0", ".", "5", "0", "}">>)) =>
        Pairs(Cur, kv) = << <<Bytes(<<"a">>), Bytes(<<"0", ".", "5", "0">>)>> >>

\* the record {"b":0.50,"d":"a\nb"} is flattened: the number as written and
\* the string with the line feed its escape stands for
C8_Witness ==
  /\ Flattened
  /\ kv.len = 2
  /\ Pairs(Cur, kv) = << <<Bytes(<<"b">>), Bytes(<<"0", ".", "5", "0">>)>>,
                         <<Bytes(<<"d">>), Bytes(<<"a", "LF", "b">>)>> >>

RECURSIVE StringScan(_, _, _, _)
\* b[lo..hi] read from the state st ("out" of a string token, "in" one, or
\* "esc", after a backslash in one): the positions outside the string tokens
\* and the state after b[hi], the range halved and the halves read in turn
StringScan(b, lo, hi, st) ==
  LET Byte ==
        CASE st = "esc" -> [out |-> {}, st |-> "in"]
          [] st = "in" ->
               [out |-> {},
                st |-> IF b[lo] = 92 THEN "esc" ELSE IF b[lo] = 34 THEN "out" ELSE "in"]
          [] OTHER ->
               IF b[lo] = 34 THEN [out |-> {}, st |-> "in"]
               ELSE [out |-> {lo}, st |-> "out"]
      Both(L, R) == [out |-> L.out \cup R.out, st |-> R.st]
      Second(L) == Both(L, StringScan(b, (lo + hi) \div 2 + 1, hi, L.st))
  IN IF lo > hi THEN [out |-> {}, st |-> st]
     ELSE IF lo = hi THEN Byte
     ELSE Second(StringScan(b, lo, (lo + hi) \div 2, st))

\* the positions of b[k..n] that are outside the string tokens, inStr telling
\* whether position k is inside one
OutsideStrings(b, k, n, inStr) ==
  StringScan(b, k, n, IF inStr THEN "in" ELSE "out").out

\* position k of b starts a number token: a sign or a digit that no byte of a
\* number comes before
TokenStart(b, k) == b[k] \in {45} \cup 48..57 /\ (k > 1 => b[k - 1] \notin NumChars)

\* the number token at k has a 0 and then a digit for its integer part
ZeroLed(b, k) ==
  LET d == IF b[k] = 45 THEN k + 1 ELSE k
  IN d + 1 <= Len(b) /\ b[d] = 48 /\ isdigit(b[d + 1])

\* the number tokens with a zero-led integer part among the first n bytes of b
ZeroLedTokens(b, n) ==
  {k \in OutsideStrings(b, 1, n, FALSE) : TokenStart(b, k) /\ ZeroLed(b, k)}

\* documents with such a token in an object, in an array, after a sign, nested
ZeroLedDocs ==
  {Bytes(<<"{", "\"", "a", "\"", ":", " ", "0", "0", "7", "}">>),
   Bytes(<<"{", "\"", "a", "\"", ":", "[", "0", "1", "]", "}">>),
   Bytes(<<"{", "\"", "a", "\"", ":", "-", "0", "1", "}">>),
   Bytes(<<"[", "0", "1", "]">>),
   Bytes(<<"[", "0", "0", "]">>)}

\* C9: a document the parser has read to the end of its top-level value has no
\* number token whose integer part is a 0 followed by a digit: with such a
\* token in an object or in an array, the run ends in a fatal error of the
\* parser and not in a parsed tree.
C9_LeadingZeroRejected ==
  /\ (pc \in {"pass1", "pass2"}) => ZeroLedTokens(input, p_pos) = {}
  /\ (pc # "parse" /\ input \in ZeroLedDocs) => (pc = "exit" /\ err \in ParseErrors)

\* the run on {"a": 007} has ended where the object's loop meets the second 0
C9_Witness ==
  /\ input = Bytes(<<"{", "\"", "a", "\"", ":", " ", "0", "0", "7", "}">>)
  /\ ZeroLedTokens(input, Len(input)) = {7}
  /\ pc = "exit"
  /\ err = "bad object syntax"
  /\ p_pos = 7

\* the parser at byte k of the input, the arenas and the buffer as they are
ParserAt(k) == [p_init(input, A_perm, A_tmp, G_tmpbuf1) EXCEPT !.pos = k]

\* the offsets of the quotes that open a run of bytes without a backslash
\* closed by a quote
PlainTokens ==
  {p \in 0..(Len(input) - 1) :
     /\ input[p + 1] = 34
     /\ \E q \in (p + 1)..(Len(input) - 1) :
           /\ input[q + 1] = 34
           /\ \A k \in (p + 1)..(q - 1) : input[k + 1] \notin {34, 92}}

\* the offset of the quote that closes the token opened at p
CloseOf(p) == CHOOSE q \in (p + 1)..(Len(input) - 1) :
                 input[q + 1] = 34 /\ \A k \in (p + 1)..(q - 1) : input[k + 1] # 34

\* F: parse_string run at the opening quote p; L: the slow path run on the
\* same token
FastAsSlow(p, F, L) ==
  /\ ~Failed(F)
  /\ F.ret = slice_make(Ptr("in", p + 1), CloseOf(p) - p - 1)
  /\ SliceBytes(F, F.ret) = SubSeq(input, p + 2, CloseOf(p))
  /\ F.pos = CloseOf(p) + 1
  /\ F.perm = A_perm /\ F.tmp = A_tmp /\ F.sb = G_tmpbuf1
  /\ ~Failed(L)
  /\ L.pos = F.pos
  /\ SliceBytes(L, L.ret) = SliceBytes(F, F.ret)

\* the slices of the strings and member keys under v that point into the input
RECURSIVE InputSlices(_, _)
InputSlices(S, v) ==
  CASE TypeOf(S, v) = J_OBJECT ->
         UNION {InputSlices(S, GetW(S, MemberAt(S, v, k), 16)) :
                  k \in 0..(GetInt(S, v, 16) - 1)}
         \cup {GetSlice(S, MemberAt(S, v, k), 0) : k \in 0..(GetInt(S, v, 16) - 1)}
    [] TypeOf(S, v) = J_ARRAY ->
         UNION {InputSlices(S, ItemAt(S, v, k)) : k \in 0..(GetInt(S, v, 16) - 1)}
    [] TypeOf(S, v) = J_STRING -> {GetSlice(S, v, 8)}
    [] OTHER -> {}

\* the slices of the strings and member keys of the parsed tree
TreeSlices == InputSlices(Cur, TopNode)

\* C10: parse_string, run at the quote that opens a string token without a
\* backslash, returns the slice of the input buffer between the two quotes,
\* byte for byte, leaves both arenas and the buffer as they were, and the slow
\* path run on the same token stops at the same place with the same content;
\* in a parsed tree a string or key that points into the input is such a
\* slice, and every string and key is one when the document has no backslash.
C10_FastPathAliasesInput ==
  /\ (pc # "done") =>
        \A p \in PlainTokens :
           FastAsSlow(p, parse_string(ParserAt(p)), parse_string_slow(ParserAt(p + 1), p + 1))
  /\ (pc \in {"pass1", "pass2"}) =>
        /\ \A s \in TreeSlices :
              s.ptr.base = "in" =>
                 /\ (s.ptr.off - 1) \in PlainTokens
                 /\ CloseOf(s.ptr.off - 1) = s.ptr.off + s.len
        /\ (\A k \in 1..p_pos : input[k] # 92) =>
              \A s \in TreeSlices : s.ptr.base = "in"

\* the document {"b":"x,y"} is parsed: the key and the string of its member
\* are slices of the input buffer, and A_perm holds no copy of either
C10_Witness ==
  /\ pc = "pass1"
  /\ i = 0
  /\ input = Bytes(<<"{", "\"", "b", "\"", ":", "\"", "x", ",", "y", "\"", "}">>)
  /\ PlainTokens = {1, 3, 5}
  /\ TreeSlices = {slice_make(Ptr("in", 2), 1), slice_make(Ptr("in", 6), 3)}
  /\ A_perm.off = SizeOf.JValue + 8 * SizeOf.JMember + SizeOf.JValue + 16 * SizeOf.ptr

\* the value of a hex digit, EOF for any other byte
HexDigit(c) ==
  IF c \in 48..57 THEN c - 48
  ELSE IF c \in 97..102 THEN c - 87
  ELSE IF c \in 65..70 THEN c - 55
  ELSE EOF

\* the byte a two-character escape stands for, by its letter
ShortEscape ==
  34 :> 34 @@ 92 :> 92 @@ 47 :> 47 @@ 98 :> 8 @@ 102 :> 12 @@ 110 :> 10
  @@ 114 :> 13 @@ 116 :> 9

\* the code point of the four hex digits b[k..k+3]
CodePoint(b, k) ==
  ((HexDigit(b[k]) * 16 + HexDigit(b[k + 1])) * 16 + HexDigit(b[k + 2])) * 16
  + HexDigit(b[k + 3])

RECURSIVE Decoded(_, _, _)
\* the string token whose first content byte is b[k], decoded: one byte per
\* escape sequence and per plain byte; [ok, bytes, end], end being the
\* offset after the closing quote
Decoded(b, k, acc) ==
  IF k > Len(b) THEN [ok |-> FALSE, bytes |-> acc, end |-> Len(b)]
  ELSE IF b[k] = 34 THEN [ok |-> TRUE, bytes |-> acc, end |-> k]
  ELSE IF b[k] # 92 THEN Decoded(b, k + 1, Append(acc, b[k]))
  ELSE IF k + 1 > Len(b) THEN [ok |-> FALSE, bytes |-> acc, end |-> Len(b)]
  ELSE IF b[k + 1] \in DOMAIN ShortEscape
    THEN Decoded(b, k + 2, Append(acc, ShortEscape[b[k + 1]]))
  ELSE IF b[k + 1] = 117 /\ k + 5 <= Len(b)
          /\ \A j \in 2..5 : HexDigit(b[k + j]) # EOF
    THEN Decoded(b, k + 6,
                 Append(acc, IF CodePoint(b, k + 2) <= 127 THEN CodePoint(b, k + 2)
                             ELSE 63))
  ELSE [ok |-> FALSE, bytes |-> acc, end |-> k]

\* the offsets of the quotes of the input
Quotes == {p \in 0..(Len(input) - 1) : input[p + 1] = 34}

\* R: parse_string run at the opening quote p; D: the token decoded
DecodesAs(R, D) ==
  /\ Failed(R) <=> ~D.ok
  /\ D.ok => /\ SliceBytes(R, R.ret) = D.bytes
             /\ R.ret.len = Len(D.bytes)
             /\ R.pos = D.end
  /\ Failed(R) => R.err \in {"bad escape", "bad \\u escape", "unknown escape",
                             "unexpected character"}

\* C11: parse_string, run at any quote of the input, gives the bytes of the
\* token with every escape sequence decoded to one byte: the byte of a
\* two-character escape, the code point of \uXXXX up to 0x7F and ? above; it
\* ends in a fatal error exactly when the token has an unknown escape, a \u
\* with a digit that is not hex, or no closing quote before the input ends.
C11_EscapesDecodeToOneByte ==
  (pc # "done") =>
     \A p \in Quotes : DecodesAs(parse_string(ParserAt(p)), Decoded(input, p + 2, <<>>))

\* the record {"k":"\u007F\u0080"} is flattened: the value is the two
\* bytes 0x7F and ?
C11_Witness ==
  /\ Flattened
  /\ input = Bytes(<<"{", "\"", "k", "\"", ":", "\"", "\\", "u", "0", "0", "7", "F",
                     "\\", "u", "0", "0", "8", "0", "\"", "}">>)
  /\ Pairs(Cur, kv) = << <<Bytes(<<"k">>), <<127, 63>> >> >>

\* C12: the parser skips only space, tab, newline and carriage return
\* between tokens: a document it has parsed has no vertical tab and no form
\* feed outside its strings among the bytes read.  (As stated; isspace()
\* also takes 0x0B and 0x0C, and the documents VT {} and { FF } are parsed.)
C12_OnlyJsonWhitespaceSkipped ==
  (pc \in {"pass1", "pass2"}) =>
     \A k \in OutsideStrings(input, 1, p_pos, FALSE) : input[k] \notin {11, 12}

\* the bytes that make the writer quote a cell: comma, quote, LF, CR
Special == {44, 34, 10, 13}

RECURSIVE Undoubled(_)
\* x with each pair of quotes read as one
Undoubled(x) ==
  IF x = <<>> THEN <<>>
  ELSE IF x[1] = 34 /\ Len(x) >= 2 /\ x[2] = 34
    THEN <<34>> \o Undoubled(SubSeq(x, 3, Len(x)))
  ELSE <<x[1]>> \o Undoubled(Tail(x))

\* a written cell read back
Unquoted(w) ==
  IF Len(w) >= 2 /\ w[1] = 34 /\ w[Len(w)] = 34
  THEN Undoubled(SubSeq(w, 2, Len(w) - 1))
  ELSE w

\* w is what must be written for the cell b
WrittenFor(b, w) ==
  /\ (\E k \in 1..Len(b) : b[k] \in Special) =>
        /\ Len(w) = Len(b) + 2 + Cardinality({k \in 1..Len(b) : b[k] = 34})
        /\ w[1] = 34 /\ w[Len(w)] = 34
        /\ \A k \in 2..(Len(w) - 1) :
              w[k] = 34 => (w[k - 1] = 34 /\ k > 2) \/ (w[k + 1] = 34 /\ k + 1 < Len(w))
  /\ (\A k \in 1..Len(b) : b[k] \notin Special) => w = b
  /\ Unquoted(w) = b

\* the slices of the KV list flattened last: its keys and its values
CellSlices ==
  {GetSlice(Cur, KVAt(Cur, kv, k), 0) : k \in 0..(kv.len - 1)}
  \cup {GetSlice(Cur, KVAt(Cur, kv, k), 16) : k \in 0..(kv.len - 1)}

\* C13: what csv_write_slice writes for a key or a value of a flattened
\* record is the cell between double quotes with every quote of it doubled
\* when the cell has a comma, a quote, a newline or a carriage return, and
\* the bytes of the cell otherwise; taking the outer quotes off and reading
\* each doubled quote as one gives the cell back.
C13_CsvQuoting ==
  Flattened => \A s \in CellSlices : WrittenFor(SliceBytes(Cur, s), csv_write_slice(Cur, s))

\* the row of the record {"k":"\"x"} is written: the cell "x goes out as
\* """x" under the header k
C13_Witness ==
  /\ pc = "pass2"
  /\ i = 1
  /\ Pairs(Cur, kv) = << <<Bytes(<<"k">>), Bytes(<<"\"", "x">>)>> >>
  /\ out = Bytes(<<"k", "LF", "\"", "\"", "\"", "x", "\"", "LF">>)

\* record k flattened from state S into an empty KV list
FlattenedAt(S, k) == flatten_object(S, ObjAt(S, objs, k), EmptySlice, EmptyList)

\* state R with the scratch arena reset to the mark taken in state S
ResetTo(R, S) == arena_reset(R, "tmp", arena_mark(S, "tmp"))

\* record k is flattened to the pairs of R1 again after a reset, and again
\* after record j was flattened and reset in between
SameAgain(R1, k) ==
  /\ ~Failed(R1)
  /\ PairsOf(FlattenedAt(ResetTo(R1, Cur), k)) = PairsOf(R1)
  /\ \A j \in 0..(objs.len - 1) :
        PairsOf(FlattenedAt(ResetTo(FlattenedAt(ResetTo(R1, Cur), j), Cur), k)) = PairsOf(R1)
  /\ (Flattened /\ k = i - 1) => Pairs(Cur, kv) = PairsOf(R1)

\* C14: a record flattened again after the scratch arena was reset to the
\* mark gives a KV list of the same length with the same keys and values at
\* every position, whichever record was flattened and reset in between; the
\* list pass 1 or pass 2 has just made for a record is the list a further
\* flattening of it makes.
C14_FlattenRepeatable ==
  (pc \in {"pass1", "pass2"}) =>
     \A k \in 0..(objs.len - 1) : SameAgain(FlattenedAt(Cur, k), k)

\* pass 2 has flattened the second of three records, after pass 1 flattened
\* all three with a reset after each: the list is that of pass 1
C14_Witness ==
  /\ pc = "pass2"
  /\ i = 2
  /\ objs.len = 3
  /\ A_tmp.off = 0
  /\ kv.len = 3
  /\ Pairs(Cur, kv) = PairsOf(FlattenedAt(Cur, 1))
  /\ Pairs(Cur, kv)[2] = <<Bytes(<<"c", ".", "d">>), Bytes(<<"5">>)>>

\* ------------------------------------------------------------ the arena

AllocOps == {"alloc", "alloc0", "slice_dup", "grow"}

\* the last call was an allocating call that returned
Returned == call.op \in AllocOps /\ call.p # NULL

\* the least multiple of a that is not below x
RoundedUp(x, a) == CHOOSE m \in x..(x + a - 1) : m % a = 0

OffsetsInBounds == A_perm.off <= A_perm.cap /\ A_tmp.off <= A_tmp.cap

\* C15 as stated: offset <= capacity for both arenas, and every pointer an
\* allocating call returns lies in [base, base + capacity) at a multiple of
\* the requested alignment.
C15_PointerInsideArena ==
  /\ OffsetsInBounds
  /\ Returned =>
        /\ call.p.off >= 0
        /\ call.p.off < Arena.cap
        /\ call.p.off % call.align = 0

\* C15: offset <= capacity for both arenas; every pointer an allocating
\* call returns is at a multiple of the requested alignment and lies in
\* [base, base + capacity], and in [base, base + capacity) when the call
\* asked for at least one byte, the region then ending within the arena.
C15_ArenaBounds ==
  /\ OffsetsInBounds
  /\ Returned =>
        /\ call.p.base = call.which
        /\ call.p.off >= 0
        /\ call.p.off + call.n <= Arena.cap
        /\ call.n >= 1 => call.p.off < Arena.cap
        /\ call.p.off % call.align = 0

\* an allocation aligned to 4 from offset 1 has filled the arena
C15_Witness ==
  /\ call.op = "alloc"
  /\ call.align = 4
  /\ call.before.off = 1
  /\ call.p = Ptr(call.which, 4)
  /\ Arena.off = Arena.cap

\* the last allocating call died of "arena out of memory", leaving the arena
\* as it was and the program stopped
OutOfMemory ==
  /\ call.p = NULL
  /\ err = "arena out of memory"
  /\ pc = "exit"
  /\ Arena = call.before
  /\ ~ENABLED ArenaNext

\* the last allocating call handed out n bytes from offset off
HandedOut(off) ==
  /\ call.p = Ptr(call.which, off)
  /\ err = ""
  /\ Arena.off = off + call.n
  /\ Arena.cap = call.before.cap

\* C16 as stated: alloc dies iff offset + (size rounded up to the
\* alignment) > capacity.
C16_FailsOnRoundedSize ==
  (call.op \in AllocOps /\ err # "killed") =>
     (OutOfMemory <=>
        call.before.off + RoundedUp(call.n, call.align) > call.before.cap)

\* C16: alloc dies with "arena out of memory" iff (offset rounded up to the
\* alignment) + size > capacity, and otherwise hands out the size bytes from
\* the rounded offset; after the failure the arena is as it was and no
\* further call is made.
C16_FailsOnRoundedOffset ==
  (call.op \in AllocOps /\ err # "killed") =>
     IF RoundedUp(call.before.off, call.align) + call.n > call.before.cap
     THEN OutOfMemory
     ELSE HandedOut(RoundedUp(call.before.off, call.align))

\* 3 bytes aligned to 4 asked at offset 1 of 5: 1 + 4 <= 5, yet the call died
C16_Witness ==
  /\ call.op = "alloc"
  /\ call.n = 3
  /\ call.align = 4
  /\ call.before.off = 1
  /\ call.before.cap = 5
  /\ OutOfMemory

\* the cells of [off, off + n) of memory mem
Region(mem, off, n) == [k \in 0..(n - 1) |-> Load(mem, off + k)]

Min(a, b) == IF a < b THEN a ELSE b

\* C17 as stated: grow returns a region of new_size bytes whose first
\* min(old_size, new_size) bytes are those of the old region, writes nothing
\* outside the new region, and leaves the old region's bytes in place.
C17_GrowCopiesMin ==
  (call.op = "grow" /\ call.p # NULL) =>
     /\ call.p.off + call.n <= Arena.cap
     /\ call.old # NULL =>
           /\ Region(Arena.mem, call.p.off, Min(call.old_bytes, call.n))
                = Region(call.before.mem, call.old.off, Min(call.old_bytes, call.n))
           /\ Region(Arena.mem, call.old.off, call.old_bytes)
                = Region(call.before.mem, call.old.off, call.old_bytes)
     /\ \A o \in (DOMAIN Arena.mem \cup DOMAIN call.before.mem)
                   \ (call.p.off..(call.p.off + call.n - 1)) :
           Load(Arena.mem, o) = Load(call.before.mem, o)

\* C18: reset(mark) sets the offset to the mark and writes no byte; an
\* allocation made next starts at the mark rounded up to its alignment,
\* whatever had been allocated past the mark; and an allocating call
\* changes no byte below the offset it started from.
C18_ResetToMark ==
  /\ call.op = "reset" =>
        /\ Arena.off = call.n
        /\ Arena.mem = call.before.mem
        /\ Arena.cap = call.before.cap
        /\ \A n \in Sizes, align \in Aligns :
              ~Failed(arena_alloc(Cur, call.which, n, align)) =>
                 arena_alloc(Cur, call.which, n, align).ret
                   = Ptr(call.which, RoundedUp(call.n, align))
  /\ (Returned /\ call.p.off + Min(call.old_bytes, call.n) <= Arena.cap) =>
        Region(Arena.mem, 0, call.before.off) = Region(call.before.mem, 0, call.before.off)

\* "t" was copied in, a mark taken at 2, two bytes allocated and the arena
\* reset to the mark: the offset is 2 again and "t" is still there
C18_Witness ==
  /\ call.op = "reset"
  /\ call.n = 2
  /\ call.before.off = 4
  /\ Arena.off = 2
  /\ Region(Arena.mem, 0, 2) = (0 :> ByteCell(116) @@ 1 :> ByteCell(0))

\* ---------------------------------------------------------- the key set

NoTwoEqual(ks) == \A a, b \in 1..Len(ks) : a # b => ks[a] # ks[b]

Among(ks, b) == \E j \in 1..Len(ks) : ks[j] = b

\* keyset_add of the slice k of state R has left state S: the set as it was
\* and nothing allocated when the content of k was in it, and otherwise the
\* set with that content appended
Added(R, k, S) ==
  /\ ~Failed(S)
  /\ IF Among(HeaderKeys(R, headers), SliceBytes(R, k))
     THEN S.ret = headers /\ S.perm = R.perm
     ELSE HeaderKeys(S, S.ret) = Append(HeaderKeys(R, headers), SliceBytes(R, k))

\* every key of the KV list flattened in state R is added as Added says
AllAdded(R) ==
  \A j \in 0..(R.ret.len - 1) :
     Added(R, GetSlice(R, KVAt(R, R.ret, j), 0),
           keyset_add(R, headers, GetSlice(R, KVAt(R, R.ret, j), 0)))

\* C19: the key set never holds two entries of equal content; keyset_add of
\* a key whose content is in the set leaves the set (and the permanent
\* arena) unchanged, and of a key whose content is not in it appends that
\* content after the existing entries, which keep their content and order.
C19_KeySetUnique ==
  (pc \in {"pass1", "pass2"}) =>
     /\ NoTwoEqual(HeaderKeys(Cur, headers))
     /\ \A k \in 0..(objs.len - 1) : AllAdded(FlattenedAt(Cur, k))

\* pass 1 has added a, then c.d and a again: the set is a, c.d
C19_Witness ==
  /\ pc = "pass1"
  /\ i = 2
  /\ KeysThrough(2) = <<Bytes(<<"a">>), Bytes(<<"c", ".", "d">>), Bytes(<<"a">>)>>
  /\ HeaderKeys(Cur, headers) = <<Bytes(<<"a">>), Bytes(<<"c", ".", "d">>)>>

\* a pass is running
Running == pc \in {"pass1", "pass2"}

\* the key array and every key's bytes with their NUL lie in the allocated
\* part of the permanent arena
KeysInPerm ==
  /\ headers.len > 0 => headers.keys.base = "perm"
  /\ \A c \in 0..(headers.len - 1) :
        /\ KeyAt(Cur, headers, c).ptr.base = "perm"
        /\ KeyAt(Cur, headers, c).ptr.off >= 0
        /\ KeyAt(Cur, headers, c).ptr.off + KeyAt(Cur, headers, c).len < A_perm.off

\* the scratch slice the first key of record k is flattened to
ScratchKey(R) == GetSlice(R, KVAt(R, R.ret, 0), 0)

\* C20: while the passes run every key of the key set lies in the permanent
\* arena, and a step of either pass (a flattening into the scratch arena
\* over the bytes of the records before, and the reset after it) leaves the
\* content and place of every key the set held: pass 1 only appends,
\* pass 2 and the header row change nothing, up to the last row.
C20_HeaderKeysPermanent ==
  [][/\ Running' => KeysInPerm'
     /\ (Running /\ Running') =>
           /\ SubSeq(HeaderKeys(Cur, headers)', 1, headers.len) = HeaderKeys(Cur, headers)
           /\ \A c \in 0..(headers.len - 1) :
                 KeyAt(Cur, headers, c)' = KeyAt(Cur, headers, c)
           /\ pc = "pass2" => headers' = headers]_vars

\* pass 2 has written its last row: the set is a, b, and the scratch bytes
\* the key a was flattened to now hold the key b of the second record
C20_Witness ==
  /\ pc = "pass2"
  /\ i = 2
  /\ objs.len = 2
  /\ HeaderKeys(Cur, headers) = <<Bytes(<<"a">>), Bytes(<<"b">>)>>
  /\ KeysInPerm
  /\ ScratchKey(FlattenedAt(Cur, 0)).ptr = ScratchKey(Ret(Cur, kv)).ptr
  /\ SliceBytes(Cur, ScratchKey(Ret(Cur, kv))) = Bytes(<<"b">>)

\* ----------------------------------------------- the KV list while it grows

\* the slots of the KV list of R: pair j, key (0) or value (16)
Slots(R) == {<<j, f>> : j \in 0..(R.ret.len - 1), f \in {0, 16}}

SlotSlice(R, s) == GetSlice(R, KVAt(R, R.ret, s[1]), s[2])

\* the scratch bytes a slice occupies, its NUL included
Extent(s) == IF s.ptr.base = "tmp" THEN s.ptr.off..(s.ptr.off + s.len) ELSE {}

\* the scratch bytes the array of the list occupies
ListExtent(l) ==
  IF l.cap = 0 THEN {} ELSE l.items.off..(l.items.off + l.cap * SizeOf.KV - 1)

\* no slice of the list of R points into the string buffer; the scratch
\* slices lie in the allocated part of the scratch arena, apart from each
\* other and from the array of the list
PushedApart(R) ==
  /\ \A s \in Slots(R) :
        /\ SlotSlice(R, s).ptr.base \in {"in", "lit", "perm", "tmp"}
        /\ Extent(SlotSlice(R, s)) \subseteq 0..(R.tmp.off - 1)
        /\ Extent(SlotSlice(R, s)) \cap ListExtent(R.ret) = {}
  /\ \A s, t \in Slots(R) :
        s # t => Extent(SlotSlice(R, s)) \cap Extent(SlotSlice(R, t)) = {}

\* state S with the object obj cut to its first n members: flatten_object
\* run on it stops where the loop over obj stands after n iterations
Cut(S, obj, n) == SetW(S, obj, 16, Int64(n))

\* record k flattened up to its first n members
FlattenedUpTo(k, n) ==
  flatten_object(Cut(Cur, ObjAt(Cur, objs, k), n), ObjAt(Cur, objs, k), EmptySlice,
                 EmptyList)

\* the pairs pushed when the loop stood at P are, in the list of R, the
\* same slices with the same content
KeptFrom(P, R) ==
  /\ ~Failed(P)
  /\ P.ret.len <= R.ret.len
  /\ \A s \in Slots(P) : SlotSlice(R, s) = SlotSlice(P, s)
  /\ Pairs(R, R.ret) \in Seq(Seq(0..255) \X Seq(0..255))
  /\ SubSeq(Pairs(R, R.ret), 1, P.ret.len) = Pairs(P, P.ret)

\* record k flattened to R keeps every pair as it was pushed
PairsKept(R, k) ==
  /\ ~Failed(R)
  /\ PushedApart(R)
  /\ \A n \in 0..GetInt(Cur, ObjAt(Cur, objs, k), 16) : KeptFrom(FlattenedUpTo(k, n), R)
  /\ (Flattened /\ k = i - 1) => Pairs(Cur, kv) = Pairs(R, R.ret)

\* C21: within one flattening no slice pushed to the KV list points into
\* the string buffer, the scratch slices overlap neither each other nor the
\* array of the list, and the pairs pushed after the first n members of the
\* record are the same slices with the same bytes when the flattening ends,
\* whatever the later members wrote to the buffer and however the list grew;
\* the list of the record flattened last reads the same after the reset.
C21_PushedPairsKeep ==
  (pc \in {"pass1", "pass2"}) =>
     \A k \in 0..(objs.len - 1) : PairsKept(FlattenedAt(Cur, k), k)

\* the record of 17 members is flattened: 18 pairs in a list grown from 16
\* to 32, the dotted keys a.b and a.c first and the joined array 1;2;3 last
C21_Witness ==
  /\ Flattened
  /\ input = WideDoc
  /\ kv.len = WideMembers + 1
  /\ kv.cap = 32
  /\ Pairs(Cur, kv)[1][1] = Bytes(<<"a", ".", "b">>)
  /\ Pairs(Cur, kv)[2][1] = Bytes(<<"a", ".", "c">>)
  /\ Pairs(Cur, kv)[kv.len] = <<Bytes(<<"a">>), Bytes(<<"1", ";", "2", ";", "3">>)>>

\* ------------------------------------------------- what flattening leaves

\* the record list as the sequence of its trees
Records(S, ol) == [k \in 1..ol.len |-> Tree(S, ObjAt(S, ol, k - 1))]

\* flattening to R has left the permanent arena, and so the tree, the
\* record list and the key set, as they are in the current state
PermLeft(R) ==
  /\ ~Failed(R)
  /\ R.perm.off = A_perm.off
  /\ R.perm.mem = A_perm.mem
  /\ R.perm.cap = A_perm.cap
  /\ R.input = input
  /\ Records(R, objs) = Records(Cur, objs)
  /\ HeaderKeys(R, headers) = HeaderKeys(Cur, headers)
  /\ R.tmp.off >= A_tmp.off

\* C22: flatten_object of any record leaves the permanent arena's offset
\* and content, the tree, the record list and the key set as they were; and
\* once the document is parsed a step advances the permanent arena only in
\* pass 1 and only when it adds a key to the key set: the header row and
\* the steps of pass 2 leave the permanent arena, the key set and the
\* record list as they were.
C22_FlattenLeavesPermanent ==
  [][/\ Running => \A k \in 0..(objs.len - 1) : PermLeft(FlattenedAt(Cur, k))
     /\ (pc # "parse" /\ A_perm'.off > A_perm.off) =>
           (pc = "pass1" /\ i < objs.len /\ headers'.len > headers.len)
     /\ (pc = "pass1" /\ pc' = "pass1" /\ headers'.len = headers.len) =>
           (A_perm' = A_perm /\ headers' = headers)
     /\ (pc \in {"pass1", "pass2"} /\ pc' = "pass2") =>
           (A_perm' = A_perm /\ headers' = headers)
     /\ (Running /\ Running') => objs' = objs]_vars

\* pass 1 has flattened [{"a":1},{"a":1}]: the scratch arena holds the
\* second record's list, and the last thing allocated in the permanent
\* arena is still the copy of the key a made for the first record
C22_Witness ==
  /\ pc = "pass1"
  /\ i = 2
  /\ objs.len = 2
  /\ headers.len = 1
  /\ kv.len = 1
  /\ kv.items.base = "tmp"
  /\ HeaderKeys(Cur, headers) = <<Bytes(<<"a">>)>>
  /\ A_perm.off = KeyAt(Cur, headers, 0).ptr.off + 2

\* ------------------------------------------------- where the tree lives

RECURSIVE NodesUnder(_, _)
\* the nodes of the tree under v, v included
NodesUnder(S, v) ==
  {v} \cup
  CASE TypeOf(S, v) = J_OBJECT ->
         UNION {NodesUnder(S, GetW(S, MemberAt(S, v, k), 16)) :
                  k \in 0..(GetInt(S, v, 16) - 1)}
    [] TypeOf(S, v) = J_ARRAY ->
         UNION {NodesUnder(S, ItemAt(S, v, k)) : k \in 0..(GetInt(S, v, 16) - 1)}
    [] OTHER -> {}

\* the n bytes at p lie in the allocated part of the permanent arena
InPerm(S, p, n) == p.base = "perm" /\ p.off >= 0 /\ p.off + n <= S.perm.off

\* a slice of the input buffer, or bytes and their NUL in the permanent arena
TextPlaced(S, s) ==
  \/ s.ptr.base = "in" /\ s.ptr.off >= 0 /\ s.ptr.off + s.len <= S.len
  \/ InPerm(S, s.ptr, s.len + 1)

\* the node v, its array and its strings are in the permanent arena or the
\* input buffer
NodePlaced(S, v) ==
  /\ InPerm(S, v, SizeOf.JValue)
  /\ TypeOf(S, v) = J_OBJECT =>
        /\ GetInt(S, v, 16) <= GetInt(S, v, 24)
        /\ GetInt(S, v, 24) > 0 =>
              InPerm(S, GetW(S, v, 8), GetInt(S, v, 24) * SizeOf.JMember)
        /\ \A k \in 0..(GetInt(S, v, 16) - 1) :
              TextPlaced(S, GetSlice(S, MemberAt(S, v, k), 0))
  /\ TypeOf(S, v) = J_ARRAY =>
        /\ GetInt(S, v, 16) <= GetInt(S, v, 24)
        /\ GetInt(S, v, 24) > 0 =>
              InPerm(S, GetW(S, v, 8), GetInt(S, v, 24) * SizeOf.ptr)
  /\ TypeOf(S, v) \in {J_STRING, J_NUMBER} => TextPlaced(S, GetSlice(S, v, 8))

\* state S with the scratch arena and the string buffer gone
NoScratch(S) == [S EXCEPT !.tmp = arena_destroy, !.sb = strbuf_destroy]

\* in state S the tree and the record list ol are in the permanent arena
\* and the input buffer, and read the same with the scratch arena and the
\* buffer gone
TreePlaced(S, ol) ==
  /\ \A v \in NodesUnder(S, TopNode) : NodePlaced(S, v)
  /\ ol.cap > 0 => InPerm(S, ol.objs, ol.cap * SizeOf.ptr)
  /\ \A k \in 0..(ol.len - 1) : ObjAt(S, ol, k) \in NodesUnder(S, TopNode)
  /\ Tree(NoScratch(S), TopNode) = Tree(S, TopNode)
  /\ Records(NoScratch(S), ol) = Records(S, ol)

\* C23: parsing leaves the scratch arena untouched; every node of the
\* parsed tree, every element and member array and the record list lie in
\* the allocated part of the permanent arena, and every string, number and
\* key is a slice of the input buffer or bytes of the permanent arena, none
\* of the string buffer; the tree and the record list read the same without
\* the scratch arena and the buffer, and the same after every step of pass 1
\* and pass 2, whatever it writes to the buffer and however often it resets
\* the scratch arena.
C23_TreeInPermanent ==
  [][/\ pc = "parse" => (A_tmp' = A_tmp /\ A_tmp'.off = 0 /\ A_tmp'.mem = EmptyMem)
     /\ Running' => \A S \in {Cur'} : TreePlaced(S, objs')
     /\ (Running /\ Running') =>
           \A S \in {Cur'} :
              /\ Tree(S, TopNode) = Tree(Cur, TopNode)
              /\ Records(S, objs') = Records(Cur, objs)]_vars

\* {"a\"b":"\u00e9"} is parsed and flattened twice: the key and the value
\* were both decoded in the buffer, the value after the key, and both are
\* copies in the permanent arena; the buffer does not hold the key
C23_Witness ==
  /\ pc = "pass2"
  /\ i = 1
  /\ input = Bytes(<<"{", "\"", "a", "\\", "\"", "b", "\"", ":", "\"", "\\", "u", "0", "0",
                     "e", "9", "\"", "}">>)
  /\ Tree(Cur, TopNode).members[1].key = Bytes(<<"a", "\"", "b">>)
  /\ Tree(Cur, TopNode).members[1].value.text = <<63>>
  /\ Tree(Cur, TopNode).members[1].value.at.ptr.base = "perm"
  /\ GetSlice(Cur, MemberAt(Cur, TopNode, 0), 0).ptr.base = "perm"
  /\ SliceBytes(Cur, strbuf_slice(Cur)) # Bytes(<<"a", "\"", "b">>)

\* ------------------------------------------------- running out of memory

\* what a flattening allocated: whether it died, where the scratch offset
\* stands, the list, and every slice of the list
Shape(R) ==
  IF Failed(R) THEN [failed |-> TRUE]
  ELSE [failed |-> FALSE, off |-> R.tmp.off, list |-> R.ret,
        slices |-> [s \in Slots(R) |-> SlotSlice(R, s)]]

\* the number of records pass 1 has flattened
Scanned == IF pc = "pass1" THEN i ELSE objs.len

\* in state S every record pass 1 has flattened is flattened without a
\* fatal error, from the same offset to the same allocations as in the
\* current state, and without a byte of the permanent arena
Repeats(S, n) ==
  \A k \in 0..(n - 1) :
     /\ ~Failed(FlattenedAt(S, k))
     /\ Shape(FlattenedAt(S, k)) = Shape(FlattenedAt(Cur, k))
     /\ FlattenedAt(S, k).perm = S.perm

\* C24: a fatal "arena out of memory" is raised by parse_top or by pass 1
\* only, with nothing written (with arenas of 64 MiB and 32 MiB no document
\* of the pool raises one); every iteration of either pass starts with
\* the scratch arena at the same offset; a record pass 1 has flattened is
\* flattened again, in every later state, to the same list at the same
\* addresses with the same scratch offset after it, without a permanent
\* allocation; and a step of pass 2 ends in pass 2 or in the clean exit,
\* never in a fatal error.
C24_NoArenaErrorAfterPass1 ==
  [][/\ (pc' = "exit" /\ err' = "arena out of memory") =>
           (pc \in {"parse", "pass1"} /\ out' = <<>>)
     /\ Running' => A_tmp'.off = 0
     /\ (Running /\ Running') => \A S \in {Cur'} : Repeats(S, Scanned')
     /\ pc = "pass2" => (pc' \in {"pass2", "done"} /\ err' = "")]_vars

\* both rows of a two-record document are written: the scratch arena is
\* back at its start, and flattening the second record once more takes
\* scratch memory and none of the permanent arena
C24_Witness ==
  /\ pc = "pass2"
  /\ i = 2
  /\ objs.len = 2
  /\ err = ""
  /\ headers.len = 2
  /\ A_tmp.off = 0
  /\ FlattenedAt(Cur, 1).tmp.off > 0
  /\ FlattenedAt(Cur, 1).perm = A_perm
  /\ Len(out) > 0

\* ------------------------------------------------- the end of the input

\* what may lie in memory after the last byte of the input: the rest of a
\* keyword, a quote, an escape, digits, a fraction, an exponent, space,
\* punctuation, each followed by more
Tails ==
  {Bytes(<<"r", "u", "e", "}", "]", " ">>), Bytes(<<"u", "e", "}", "]", " ", " ">>),
   Bytes(<<"e", "1", "}", "]", " ", " ">>), Bytes(<<"a", "l", "s", "e", "}", "]">>),
   Bytes(<<"l", "s", "e", "}", "]", " ">>), Bytes(<<"s", "e", "}", "]", " ", " ">>),
   Bytes(<<"u", "l", "l", "}", "]", " ">>), Bytes(<<"l", "l", "}", "]", " ", " ">>),
   Bytes(<<"l", "}", "]", " ", " ", " ">>), Bytes(<<"\"", "}", "]", " ", " ", " ">>),
   Bytes(<<"\\", "\"", "\"", "}", "]", " ">>), Bytes(<<"n", "\"", "}", "]", " ", " ">>),
   Bytes(<<"0", "0", "4", "1", "\"", "}">>), Bytes(<<"1", "\"", ":", "1", "}", "]">>),
   Bytes(<<".", "5", "}", "]", " ", " ">>), Bytes(<<" ", "}", "]", " ", " ", " ">>),
   Bytes(<<"}", "]", "}", "]", " ", " ">>), Bytes(<<":", "1", "}", "]", " ", " ">>),
   Bytes(<<",", "1", "]", "}", " ", " ">>), Bytes(<<"-", "1", "}", "]", " ", " ">>)}

\* six NUL bytes after the input
NulTail == [k \in 1..6 |-> 0]

\* the parser at byte k of the input with tail in memory after the input:
\* len is the length of the input, as p_init is given it
ParserBefore(tail, k) == [ParserAt(k) EXCEPT !.input = input \o tail]

\* a parser state without the buffer
Outcome(R) == [pos |-> R.pos, len |-> R.len, perm |-> R.perm, tmp |-> R.tmp,
               sb |-> R.sb, err |-> R.err, ret |-> R.ret]

\* the parser functions run from state S
ParserRuns(S) ==
  <<parse_number(S), parse_string(S), parse_value(S), p_match_kw(S, CStr.true, 4),
    p_match_kw(S, CStr.false, 5), p_match_kw(S, CStr.null, 4), p_skip_ws(S), p_next(S),
    Ret(S, p_peek(S))>>

\* the runs that return a slice: parse_number and parse_string
SliceRuns == {1, 2}

\* R, reached from position k, stands between k and the end of the input,
\* and a slice of the input it returns ends before the end of the input
WithinInput(R, n, k) ==
  /\ R.pos >= k
  /\ R.pos <= R.len
  /\ R.len = Len(input)
  /\ (~Failed(R) /\ n \in SliceRuns /\ R.ret.ptr.base = "in") =>
        (R.ret.ptr.off >= k /\ R.ret.ptr.off + R.ret.len <= R.pos)

\* the runs rs made from position k stay within the input
AllWithin(rs, k) == \A n \in 1..Len(rs) : WithinInput(rs[n], n, k)

\* the runs rs come out as the runs qs
SameOutcomes(rs, qs) == \A n \in 1..Len(rs) : Outcome(rs[n]) = Outcome(qs[n])

\* the runs from position k stay within the input and come out the same
\* whatever lies after the input
EndRespected(k) ==
  \A qs \in {ParserRuns(ParserBefore(NulTail, k))} :
     /\ AllWithin(qs, k)
     /\ \A tail \in Tails :
           \A rs \in {ParserRuns(ParserBefore(tail, k))} :
              AllWithin(rs, k) /\ SameOutcomes(rs, qs)

\* C25: the parser started at any position of any input, a truncated one
\* included, stops at a position between its start and the length of the
\* input, returns slices of the input that end within it, and comes out the
\* same (position, result, error, arenas, buffer) whatever bytes lie in
\* memory after the input: it reads no byte at an index >= len.  The
\* position the program's parser stops at is within the input.
C25_ReadsWithinInput ==
  /\ p_pos >= 0
  /\ pc # "done" => p_pos <= Len(input)
  /\ pc = "parse" => \A k \in 0..Len(input) : EndRespected(k)

\* {"a":tru has been read up to the cut-off keyword, which the bytes after
\* the input would have completed: the run has ended in "bad token"
C25_Witness ==
  /\ pc = "exit"
  /\ input = Bytes(<<"{", "\"", "a", "\"", ":", "t", "r", "u">>)
  /\ err = "bad token"
  /\ p_pos = 5
  /\ p_pos + 4 > Len(input)
  /\ ~Failed(parse_value([ParserAt(5) EXCEPT !.input = input \o Bytes(<<"e">>), !.len = 9]))

\* ------------------------------------------------- the parser's loops
\* main has a step to take: it has neither returned nor died
Live == pc \notin {"done", "exit"}

\* The program run to its end. main is one sequential thread, so a step that
\* can be taken is taken: weak fairness of Next, with ENABLED <<Next>>_vars
\* written out as Live (Parse has no condition but pc = "parse", and of each
\* pass either the iteration or the step that ends the pass can be taken,
\* as i <= objs.len).
RunSpec == CutInit /\ [][Next]_vars /\ ([]<>(~Live) \/ []<><<Next>>_vars)

\* R, reached from S by one iteration, has raised an error or is further on
Moved(S, R) == Failed(R) \/ (R.pos > S.pos /\ R.pos <= S.len)

\* the for over the hex digits is entered at the u of a backslash-u
HexEntered(S) == S.pos > 0 /\ S.input[S.pos] = 92 /\ p_peek(S) = 117

RECURSIVE HexMoves(_, _, _)
\* iterations n..3 of the for over the hex digits, from S
HexMoves(S, n, v) ==
  n = 4 \/ \A R \in {HexIter(S, v)} :
              Moved(S, R) /\ (Failed(R) \/ HexMoves(R, n + 1, R.ret))

\* one iteration of each loop of the parser whose condition holds at S
LoopsMove(S) ==
  /\ WsCond(S) => Moved(S, Advance(S))
  /\ ScanCond(S) => Moved(S, Advance(S))
  /\ DigitsCond(S) => Moved(S, p_next(S))
  /\ SlowCond(S) => Moved(S, SlowIter(S))
  /\ HexEntered(S) => HexMoves(S, 0, 0)
  /\ \A Arr \in {jnew(S, J_ARRAY)} : Moved(S, ArrayIter(Arr, Arr.ret))
  /\ \A Obj \in {jnew(S, J_OBJECT)} : Moved(S, ObjectIter(Obj, Obj.ret))

\* at the end of the input every loop stops or raises an error
LoopsStop(S) ==
  /\ ~WsCond(S) /\ ~ScanCond(S) /\ ~DigitsCond(S) /\ ~SlowCond(S)
  /\ Failed(HexIter(S, 0))
  /\ \A Arr \in {jnew(S, J_ARRAY)} : Failed(ArrayIter(Arr, Arr.ret))
  /\ \A Obj \in {jnew(S, J_OBJECT)} : Failed(ObjectIter(Obj, Obj.ret))

\* what parse_top has left: a fatal error, or a list of objects
LeftParseTop ==
  \/ pc = "parse"
  \/ pc = "exit" /\ err # ""
  \/ pc = "done" /\ err = ""
  \/ /\ pc \in {"pass1", "pass2"}
     /\ err = ""
     /\ p_pos <= Len(input)
     /\ Running => i <= objs.len
     /\ Running => \A k \in 0..(objs.len - 1) :
                      TypeOf(Cur, ObjAt(Cur, objs, k)) = J_OBJECT

LoopsAdvance ==
  pc = "parse" =>
    /\ \A k \in 0..Len(input) : LoopsMove(ParserAt(k))
    /\ LoopsStop(ParserAt(Len(input)))

\* C26: parse_top terminates on every input, with a fatal error or with a
\* record list: an iteration of a parser loop (whitespace, the two string
\* loops, the hex digits, the digits of a number, the items of an array, the
\* members of an object) that raises no error ends at a later position, at
\* the end of the input every loop stops or raises an error, and the run
\* leaves parse_top.
C26_ParserTerminates ==
  /\ [](LoopsAdvance /\ LeftParseTop)
  /\ <>(pc # "parse")

\* a string with an escape cut off before its closing quote: the slow loop
\* has decoded up to the end of the input and stopped there
C26_Witness ==
  /\ pc = "exit"
  /\ err = "unexpected character"
  /\ p_pos = Len(input)
  /\ G_tmpbuf1.len >= 2
  /\ \E k \in 1..Len(input) : input[k] = 92

\* ------------------------------------------------ bytes after the value
\* the parser as parse_top starts it, on the first n bytes of the input
ParserOn(n) == p_init(SubSeq(input, 1, n), A_perm, A_tmp, G_tmpbuf1)

\* the top-level value as parse_top parses it
TopValue == parse_value(p_skip_ws(ParserOn(Len(input))))

\* the step of parse_top leaves what parse_top leaves on the input cut after
\* the value V, but for the position
AsCutAfter(V) ==
  \A C \in {parse_top(ParserOn(V.pos))} :
     /\ C.pos = V.pos
     /\ err' = C.err
     /\ pc' = IF Failed(C) THEN "exit" ELSE "pass1"
     /\ ~Failed(C) => objs' = C.ret
     /\ A_perm' = C.perm /\ A_tmp' = C.tmp /\ G_tmpbuf1' = C.sb

\* C27: parse_top's outcome depends only on the input up to the end of the
\* first complete top-level value. Once the value is parsed, the error or
\* the record list, and the arenas and the buffer with them, are those of
\* the input cut off after the value; of the bytes after it parse_top only
\* skips the whitespace that follows directly, and reads the byte that ends
\* that whitespace.
C27_OutcomeOfFirstValue ==
  [][pc = "parse" =>
       \A V \in {TopValue} :
          ~Failed(V) => /\ AsCutAfter(V)
                        /\ p_pos' = p_skip_ws(V).pos]_vars

\* C27 as stated: no byte after the value is examined, so the parser is left
\* at the end of the value
C27_NothingAfterExamined ==
  [][pc = "parse" => \A V \in {TopValue} : ~Failed(V) => p_pos' = V.pos]_vars

\* {"a":1} followed by a space and an x: one record, its row written, the
\* parser left after the space
C27_Witness ==
  /\ input = Bytes(<<"{", "\"", "a", "\"", ":", "1", "}", " ", "x">>)
  /\ pc = "pass2"
  /\ i = objs.len
  /\ err = ""
  /\ objs.len = 1
  /\ p_pos = 8
  /\ out = Bytes(<<"a", "LF", "1", "LF">>)

\* ------------------------------------------------------ repeated keys
\* the keys that more than one pair of ps has
Repeated(ps) ==
  {ps[k][1] : k \in {j \in 1..Len(ps) : \E m \in 1..(j - 1) : ps[m][1] = ps[j][1]}}

\* b ends with e
EndsWith(b, e) == Len(e) <= Len(b) /\ SubSeq(b, Len(b) - Len(e) + 1, Len(b)) = e

\* the pair of ps that comes first among those with the key
FirstWith(ps, key) ==
  CHOOSE k \in 1..Len(ps) : ps[k][1] = key /\ \A j \in 1..(k - 1) : ps[j][1] # key

\* the row of the pairs ps under the header hs, a repeated key giving the
\* value of its first pair
FirstWins(hs, ps) ==
  Line([c \in 1..Len(hs) |->
          IF \E k \in 1..Len(ps) : ps[k][1] = hs[c]
          THEN ps[FirstWith(ps, hs[c])][2] ELSE <<>>])

RepeatedKept(hs, ps) ==
  /\ Len(ps) = Len(Leaves(LastRecord, <<>>))
  /\ \A key \in Repeated(ps) : Cardinality({c \in 1..Len(hs) : hs[c] = key}) = 1
  /\ pc = "pass2" => EndsWith(out, FirstWins(hs, ps))

\* C28: when the KV list of a record has a key more than once, from a member
\* key that repeats or from two paths with the same dotted text, every pair
\* is in the list, one for each value of the record that is no object; the
\* key is in the header once; and the record's row has one cell for the key,
\* holding the value of the pair that comes first in the list.
\* {"a.b":2,"a":{"b":1,"c":2}} gives the header a.b,a.c and the row 2,2.
C28_FirstOccurrenceWins ==
  /\ (Flattened /\ Repeated(Pairs(Cur, kv)) # {}) =>
        RepeatedKept(HeaderKeys(Cur, headers), Pairs(Cur, kv))
  /\ (Example(Bytes(<<"{", "\"", "a", ".", "b", "\"", ":", "2", ",", "\"", "a", "\"", ":",
                      "{", "\"", "b", "\"", ":", "1", ",", "\"", "c", "\"", ":", "2", "}",
                      "}">>)) /\ pc = "pass2") =>
        /\ KeysOfPairs(Pairs(Cur, kv))
             = <<Bytes(<<"a", ".", "b">>), Bytes(<<"a", ".", "b">>), Bytes(<<"a", ".", "c">>)>>
        /\ out = Bytes(<<"a", ".", "b", ",", "a", ".", "c", "LF", "2", ",", "2", "LF">>)

\* {"a":1,"a":[1,2,3]}: the member key a repeats, both pairs are in the
\* list, the header is a and the row is 1
C28_Witness ==
  /\ pc = "pass2"
  /\ i = 1
  /\ Pairs(Cur, kv) = << <<Bytes(<<"a">>), Bytes(<<"1">>)>>,
                         <<Bytes(<<"a">>), Bytes(<<"1", ";", "2", ";", "3">>)>> >>
  /\ HeaderKeys(Cur, headers) = <<Bytes(<<"a">>)>>
  /\ out = Bytes(<<"a", "LF", "1", "LF">>)

\* ------------------------------------------- the variants' text buffers
\* json2csv_v2_simple.c (the baseline) and v4_loop_optimized.c read the
\* document from a FILE, one byte at a time, and build the text of every
\* string and every number in a malloc'ed buffer of its own: buf, with len
\* bytes of text and cap bytes allocated. p_next, p_init, p_expect and
\* sb_push are the same in the two files. The parser and the buffer are one
\* record: f the bytes of the file, at the count of bytes read, c the byte
\* read last, wild the writes that went outside the block.

\* a byte of a block that nothing has been written to
Junk == 0 - 2

v4_p_next(T) ==
  IF T.at < Len(T.f) THEN [T EXCEPT !.c = T.f[T.at + 1], !.at = T.at + 1]
  ELSE [T EXCEPT !.c = EOF]

\* p->f = f; p->c = 0; p_next(p), with no buffer yet
v4_p_init(f) ==
  v4_p_next([f |-> f, at |-> 0, c |-> 0, buf |-> <<>>, len |-> 0, cap |-> 0,
             err |-> "", wild |-> {}])

RECURSIVE v4_p_skip_ws(_)
\* the loop ends at EOF, at a byte above the space, and at a byte that is
\* none of space, tab, LF, CR; the baseline's while tests the same four bytes
v4_p_skip_ws(T) ==
  IF T.c # EOF /\ T.c <= 32 /\ T.c \in {32, 9, 10, 13} THEN v4_p_skip_ws(v4_p_next(T))
  ELSE T

v4_p_expect(T, ch) ==
  IF T.c # ch THEN die(T, "unexpected character") ELSE v4_p_next(T)

RECURSIVE v4_p_match_kw(_, _)
\* the bytes of kw one after the other: returns 0 at the first that differs
\* and 1 when all have been read; the baseline's for does the same
v4_p_match_kw(T, kw) ==
  IF kw = <<>> THEN [p |-> T, ret |-> 1]
  ELSE IF T.c # Head(kw) THEN [p |-> T, ret |-> 0]
  ELSE v4_p_match_kw(v4_p_next(T), Tail(kw))

\* (unsigned)val < n is 0 <= val < n; ch | 32 sets the bit of weight 32
v4_hexval(ch) ==
  LET lower == IF ch >= 0 /\ (ch \div 32) % 2 = 0 THEN ch + 32 ELSE ch
  IN IF 0 <= ch - 48 /\ ch - 48 < 10 THEN ch - 48
     ELSE IF 0 <= lower - 97 /\ lower - 97 < 6 THEN 10 + (lower - 97)
     ELSE 0 - 1

\* cap = cap ? cap * 2 : 64; buf = xrealloc(buf, cap): the bytes there were
\* are kept, the others are not initialised
TextGrow(T) ==
  LET Realloc(n) ==
        [T EXCEPT !.cap = n,
                  !.buf = [k \in 1..n |-> IF k <= Len(T.buf) THEN T.buf[k] ELSE Junk]]
  IN Realloc(IF T.cap # 0 THEN T.cap * 2 ELSE 64)

\* buf[k] = ch; at k >= cap the byte is written outside the block
TextStore(T, k, ch) ==
  IF k < T.cap THEN [T EXCEPT !.buf[k + 1] = ch]
  ELSE [T EXCEPT !.wild = @ \cup {[index |-> k, cap |-> T.cap, at |-> T.at]}]

\* buf[len++] = ch
TextAppend(T, ch) == [TextStore(T, T.len, ch) EXCEPT !.len = T.len + 1]

\* buf[len] = '\0'
TextEnd(T) == TextStore(T, T.len, 0)

v4_sb_push(T, ch) ==
  TextEnd(TextAppend(IF T.len + 1 >= T.cap THEN TextGrow(T) ELSE T, ch))

\* the first statements of parse_string and parse_number_text: a buffer of
\* 64 bytes holding the empty text
TextFresh(T) ==
  TextEnd([v4_sb_push([T EXCEPT !.buf = <<>>, !.len = 0, !.cap = 0], 0)
             EXCEPT !.len = 0])

\* buf[len++] = (char)p->c; p_next(p)
TextTake(T) == v4_p_next(TextAppend(T, T.c))

\* sb_push(&buf, &len, &cap, (char)p->c); p_next(p)
TextPushTake(T) == v4_p_next(v4_sb_push(T, T.c))

\* the fast path of parse_string's loop: the first byte, then the three
\* nested ifs, each taking one more byte that is no control byte, backslash,
\* quote or EOF
v4_FastPath(T) ==
  LET More(c) == c >= 32 /\ c # 92 /\ c # 34 /\ c # EOF
      Fourth(T4) == IF More(T4.c) THEN TextTake(T4) ELSE T4
      Third(T3) == IF More(T3.c) THEN Fourth(TextTake(T3)) ELSE T3
      Second(T2) == IF More(T2.c) THEN Third(TextTake(T2)) ELSE T2
      Run(T1) == TextEnd(Second(TextTake(T1)))
  IN Run(IF T.len + 4 >= T.cap THEN TextGrow(T) ELSE T)

\* case 'u' of the switch
v4_Unicode(T) ==
  LET Bad(T1) == die(T1, "bad \\u escape")
      Put(T4, v) == TextAppend(T4, IF v <= 127 THEN v ELSE 63)
      H3(T4, h0, h1, h2) ==
        IF v4_hexval(T4.c) < 0 THEN Bad(T4)
        ELSE Put(T4, h0 * 4096 + h1 * 256 + h2 * 16 + v4_hexval(T4.c))
      H2(T3, h0, h1) ==
        IF v4_hexval(T3.c) < 0 THEN Bad(T3)
        ELSE H3(v4_p_next(T3), h0, h1, v4_hexval(T3.c))
      H1(T2, h0) ==
        IF v4_hexval(T2.c) < 0 THEN Bad(T2) ELSE H2(v4_p_next(T2), h0, v4_hexval(T2.c))
      H0(T1) ==
        IF v4_hexval(T1.c) < 0 THEN Bad(T1) ELSE H1(v4_p_next(T1), v4_hexval(T1.c))
  IN H0(v4_p_next(T))

\* the slow path of parse_string's loop, after the backslash
v4_Escape(T) ==
  LET Switch(T1) ==
        CASE T1.c = 34 -> TextAppend(T1, 34)
          [] T1.c = 92 -> TextAppend(T1, 92)
          [] T1.c = 47 -> TextAppend(T1, 47)
          [] T1.c = 110 -> TextAppend(T1, 10)
          [] T1.c = 116 -> TextAppend(T1, 9)
          [] T1.c = 114 -> TextAppend(T1, 13)
          [] T1.c = 98 -> TextAppend(T1, 8)
          [] T1.c = 102 -> TextAppend(T1, 12)
          [] T1.c = 117 -> v4_Unicode(T1)
          [] OTHER -> die(T1, "unknown escape")
      Done(T2) == IF Failed(T2) THEN T2 ELSE v4_p_next(TextEnd(T2))
  IN IF T.c = EOF THEN die(T, "bad escape")
     ELSE Done(Switch(IF T.len + 1 >= T.cap THEN TextGrow(T) ELSE T))

RECURSIVE v4_StringLoop(_, _)
\* parse_string's while, for n passes at most: a pass tests the condition
\* and, where it holds, runs the body once; die() ends the loop
v4_StringLoop(T, n) ==
  IF Failed(T) \/ T.c = EOF \/ T.c = 34 THEN T
  ELSE IF n <= 1
    THEN IF T.c >= 32 /\ T.c # 92 /\ T.c # 34 THEN v4_FastPath(T)
         ELSE IF T.c = 92 THEN v4_Escape(v4_p_next(T))
         ELSE TextPushTake(T)
  ELSE v4_StringLoop(v4_StringLoop(T, n \div 2), n - n \div 2)

v4_parse_string(T) ==
  LET Closed(T2) == IF Failed(T2) THEN T2 ELSE v4_p_expect(T2, 34)
      Opened(T1) == IF Failed(T1) THEN T1 ELSE Closed(v4_StringLoop(TextFresh(T1), Len(T1.f) + 1))
  IN Opened(v4_p_expect(T, 34))

RECURSIVE v4_Digits4(_, _)
\* the while of the integer part, four digits to the iteration, for n passes
\* at most; after a break the byte is no digit and the condition is false
v4_Digits4(T, n) ==
  LET Fourth(T3) == IF ~isdigit(T3.c) THEN T3 ELSE TextTake(T3)
      Third(T2) == IF ~isdigit(T2.c) THEN T2 ELSE Fourth(TextTake(T2))
      Second(T1) == IF ~isdigit(T1.c) THEN T1 ELSE Third(TextTake(T1))
  IN IF ~isdigit(T.c) THEN T
     ELSE IF n <= 1 THEN Second(TextTake(T))
     ELSE v4_Digits4(v4_Digits4(T, n \div 2), n - n \div 2)

RECURSIVE v4_Digits(_, _)
\* the whiles of the fraction and of the exponent, for n passes at most
v4_Digits(T, n) ==
  IF ~isdigit(T.c) THEN T
  ELSE IF n <= 1 THEN TextTake(T)
  ELSE v4_Digits(v4_Digits(T, n \div 2), n - n \div 2)

v4_parse_number_text(T) ==
  LET Ended(T6) == IF Failed(T6) THEN T6 ELSE TextEnd(T6)
      ExpDigits(T5) ==
        IF ~isdigit(T5.c) THEN die(T5, "bad number exponent") ELSE v4_Digits(T5, Len(T5.f) + 1)
      ExpSign(T4) == ExpDigits(IF T4.c = 43 \/ T4.c = 45 THEN TextTake(T4) ELSE T4)
      Exp(T3) ==
        IF Failed(T3) THEN T3
        ELSE IF T3.c = 101 \/ T3.c = 69 THEN ExpSign(TextTake(T3))
        ELSE T3
      FracDigits(T3) ==
        IF ~isdigit(T3.c) THEN die(T3, "bad number fraction") ELSE v4_Digits(T3, Len(T3.f) + 1)
      Frac(T2) ==
        IF Failed(T2) THEN T2
        ELSE IF T2.c = 46 THEN FracDigits(TextTake(T2))
        ELSE T2
      Whole(T1) ==
        IF ~isdigit(T1.c) THEN die(T1, "bad number")
        ELSE IF T1.c = 48 THEN TextTake(T1)
        ELSE v4_Digits4(T1, Len(T1.f) + 1)
      Sign(T0) == IF T0.c = 45 THEN TextTake(T0) ELSE T0
      Room(T0) ==
        IF T0.cap < 32
          THEN [T0 EXCEPT !.cap = 32,
                          !.buf = [k \in 1..32 |-> IF k <= Len(T0.buf) THEN T0.buf[k]
                                                   ELSE Junk]]
          ELSE T0
  IN Ended(Exp(Frac(Whole(Sign(Room(TextFresh(T)))))))

RECURSIVE v2_Unicode(_, _, _)
\* the baseline's for over the four hex digits, and the push of the value
v2_Unicode(T, n, v) ==
  LET Digit(T1) ==
        IF hexval(T1.c) < 0 THEN die(T1, "bad \\u escape")
        ELSE v2_Unicode(T1, n + 1, v * 16 + hexval(T1.c))
  IN IF n = 4 THEN v4_sb_push(T, IF v <= 127 THEN v ELSE 63)
     ELSE Digit(v4_p_next(T))

\* the baseline's loop body at a backslash, after the backslash
v2_Escape(T) ==
  LET Switch(T1) ==
        CASE T1.c = 34 -> v4_sb_push(T1, 34)
          [] T1.c = 92 -> v4_sb_push(T1, 92)
          [] T1.c = 47 -> v4_sb_push(T1, 47)
          [] T1.c = 98 -> v4_sb_push(T1, 8)
          [] T1.c = 102 -> v4_sb_push(T1, 12)
          [] T1.c = 110 -> v4_sb_push(T1, 10)
          [] T1.c = 114 -> v4_sb_push(T1, 13)
          [] T1.c = 116 -> v4_sb_push(T1, 9)
          [] T1.c = 117 -> v2_Unicode(T1, 0, 0)
          [] OTHER -> die(T1, "unknown escape")
      Done(T2) == IF Failed(T2) THEN T2 ELSE v4_p_next(T2)
  IN IF T.c = EOF THEN die(T, "bad escape") ELSE Done(Switch(T))

RECURSIVE v2_StringLoop(_, _)
\* the baseline's while of parse_string, for n passes at most
v2_StringLoop(T, n) ==
  IF Failed(T) \/ T.c = EOF \/ T.c = 34 THEN T
  ELSE IF n <= 1
    THEN IF T.c = 92 THEN v2_Escape(v4_p_next(T)) ELSE TextPushTake(T)
  ELSE v2_StringLoop(v2_StringLoop(T, n \div 2), n - n \div 2)

v2_parse_string(T) ==
  LET Closed(T2) == IF Failed(T2) THEN T2 ELSE v4_p_expect(T2, 34)
      Opened(T1) == IF Failed(T1) THEN T1 ELSE Closed(v2_StringLoop(TextFresh(T1), Len(T1.f) + 1))
  IN Opened(v4_p_expect(T, 34))

RECURSIVE v2_Digits(_, _)
\* the baseline's three whiles over digits, for n passes at most
v2_Digits(T, n) ==
  IF ~isdigit(T.c) THEN T
  ELSE IF n <= 1 THEN TextPushTake(T)
  ELSE v2_Digits(v2_Digits(T, n \div 2), n - n \div 2)

v2_parse_number_text(T) ==
  LET ExpDigits(T5) ==
        IF ~isdigit(T5.c) THEN die(T5, "bad number exponent") ELSE v2_Digits(T5, Len(T5.f) + 1)
      ExpSign(T4) == ExpDigits(IF T4.c = 43 \/ T4.c = 45 THEN TextPushTake(T4) ELSE T4)
      Exp(T3) ==
        IF Failed(T3) THEN T3
        ELSE IF T3.c = 101 \/ T3.c = 69 THEN ExpSign(TextPushTake(T3))
        ELSE T3
      FracDigits(T3) ==
        IF ~isdigit(T3.c) THEN die(T3, "bad number fraction") ELSE v2_Digits(T3, Len(T3.f) + 1)
      Frac(T2) ==
        IF Failed(T2) THEN T2
        ELSE IF T2.c = 46 THEN FracDigits(TextPushTake(T2))
        ELSE T2
      Whole(T1) ==
        IF ~isdigit(T1.c) THEN die(T1, "bad number")
        ELSE IF T1.c = 48 THEN TextPushTake(T1)
        ELSE v2_Digits(T1, Len(T1.f) + 1)
      Sign(T0) == IF T0.c = 45 THEN TextPushTake(T0) ELSE T0
  IN Exp(Frac(Whole(Sign(TextFresh(T)))))

\* the longest run of bytes in a token of the pool
MaxText == 67

Rep(b, n) == [k \in 1..n |-> b]

\* numbers: digits, a sign and digits, a fraction, an exponent, each followed
\* by a comma, by nothing, or cut off
NumberTexts ==
  UNION {{Rep(49, n) \o <<44>>, <<45>> \o Rep(55, n), <<48, 46>> \o Rep(53, n) \o <<125>>,
          Rep(50, n) \o <<101, 43>> \o Rep(57, n % 7), Rep(51, n) \o <<46>>,
          <<45>> \o Rep(52, n) \o <<69>>} : n \in 0..MaxText}

\* strings: a run of plain bytes, then the closing quote, an escape, a \u
\* escape, a control byte, a byte above 127, the end of the file, or bad
\* escapes
StringTexts ==
  UNION {{<<34>> \o Rep(120, n) \o tl :
            tl \in {<<34>>, <<92, 110, 121, 34>>, <<92, 117, 48, 48, 52, 49, 34>>,
                    <<92, 117, 48, 48, 69, 57, 122, 122, 34>>, <<1, 122, 34>>,
                    <<233, 34>>, <<>>, <<92>>, <<92, 113, 34>>, <<92, 117, 48, 71>>,
                    <<92, 34, 92, 92, 92, 47, 92, 98, 92, 102, 92, 114, 92, 116, 34>>}} :
         n \in 0..(2 * MaxText)}

\* keywords, whole, cut off and misspelt; bytes no value starts with; an
\* empty file and one of white space; tokens after white space, and after
\* bytes the C library takes for white space and JSON does not
OtherTexts ==
  {<<116, 114, 117, 101>>, <<116, 114, 117, 101, 44>>, <<116, 114, 117>>,
   <<116, 114, 120, 101>>, <<102, 97, 108, 115, 101>>, <<102, 97, 108, 115>>,
   <<110, 117, 108, 108>>, <<110, 117, 108>>, <<110, 111>>,
   <<44>>, <<46>>, <<101, 43>>, <<125>>, <<93>>, <<58>>, <<84>>, <<0>>, <<255>>,
   <<>>, <<32>>, <<32, 9, 10, 13>>,
   <<32, 49, 50>>, <<9, 10, 13, 32, 34, 120, 34>>, <<10, 116, 114, 117, 101>>,
   <<13, 45>>, <<32, 44>>, <<11, 49>>, <<12, 34, 120, 34>>, <<32, 11>>}

TextInputs == NumberTexts \cup StringTexts \cup OtherTexts

\* the file is open and parse_top has called p_init; the value in the file
\* is no object and no array
TextInit ==
  /\ input \in TextInputs
  /\ pc = "token"
  /\ p_pos = 0
  /\ err = ""
  /\ call = NoCall
  /\ A_perm = arena_destroy
  /\ A_tmp = arena_destroy
  /\ G_tmpbuf1 = strbuf_destroy
  /\ objs = EmptyObjList
  /\ headers = EmptyKeySet
  /\ kv = EmptyList
  /\ i = 0
  /\ out = <<>>
  /\ marks = {}

\* parse_value has run in the two variants, Opt the loop-optimized one's
\* parser and buffer and Base the baseline's. The run that follows is the
\* loop-optimized variant's: it has died, or the value is returned. After a
\* write outside the block the behaviour is undefined: the run goes on as if
\* nothing had happened (to die() or to the return), or it is stopped at the
\* first such write, or it goes on from the return with the heap corrupted.
\* type and boolean are those of the value jnew has made, "" when it has
\* made none.
TextParsed(op, type, boolean, Opt, Base) ==
  /\ call' = [op |-> op, type |-> type, boolean |-> boolean, opt |-> Opt,
              base |-> Base]
  /\ \E end \in
        {[pc |-> IF Failed(Opt) THEN "exit" ELSE "returned", err |-> Opt.err,
          at |-> Opt.at]}
        \cup {[pc |-> "crashed", err |-> "", at |-> w.at] :
                w \in {v \in Opt.wild : \A u \in Opt.wild : v.index <= u.index}}
        \cup {[pc |-> "corrupted", err |-> "", at |-> Opt.at] :
                w \in {v \in Opt.wild : ~Failed(Opt)}} :
        /\ pc' = end.pc
        /\ err' = end.err
        /\ p_pos' = end.at
  /\ UNCHANGED <<input, A_perm, A_tmp, G_tmpbuf1, objs, headers, kv, i, out, marks>>

\* parse_value at end of file
TextEOF ==
  /\ pc = "token"
  /\ \E T \in {v4_p_skip_ws(v4_p_skip_ws(v4_p_init(input)))} :
        /\ T.c = EOF
        /\ \E D \in {die(T, "unexpected EOF")} : TextParsed("parse_value", "", 0, D, D)

\* parse_value at a quote
TextString ==
  /\ pc = "token"
  /\ \E T \in {v4_p_skip_ws(v4_p_skip_ws(v4_p_init(input)))} :
        /\ T.c = 34
        /\ \E Opt \in {v4_parse_string(T)} : \E Base \in {v2_parse_string(T)} :
              TextParsed("parse_string", "J_STRING", 0, Opt, Base)

\* parse_value at a digit or a minus sign
TextNumber ==
  /\ pc = "token"
  /\ \E T \in {v4_p_skip_ws(v4_p_skip_ws(v4_p_init(input)))} :
        /\ T.c = 45 \/ (0 <= T.c - 48 /\ T.c - 48 < 10)
        /\ \E Opt \in {v4_parse_number_text(T)} : \E Base \in {v2_parse_number_text(T)} :
              TextParsed("parse_number_text", "J_NUMBER", 0, Opt, Base)

\* parse_value at t, f or n
TextKeyword ==
  /\ pc = "token"
  /\ \E T \in {v4_p_skip_ws(v4_p_skip_ws(v4_p_init(input)))} :
        /\ T.c \in {116, 102, 110}
        /\ \E M \in {v4_p_match_kw(T, CASE T.c = 116 -> <<116, 114, 117, 101>>
                                         [] T.c = 102 -> <<102, 97, 108, 115, 101>>
                                         [] OTHER -> <<110, 117, 108, 108>>)} :
           \E R \in {IF M.ret = 0 THEN die(M.p, "bad token") ELSE M.p} :
              TextParsed("p_match_kw",
                         CASE M.ret = 0 -> ""
                           [] T.c = 110 -> "J_NULL"
                           [] OTHER -> "J_BOOL",
                         IF M.ret = 1 /\ T.c = 116 THEN 1 ELSE 0, R, R)

\* parse_value at any other byte but { and [
TextUnknown ==
  /\ pc = "token"
  /\ \E T \in {v4_p_skip_ws(v4_p_skip_ws(v4_p_init(input)))} :
        /\ T.c \notin {EOF, 123, 34, 91, 45, 116, 102, 110} \cup 48..57
        /\ \E D \in {die(T, "unknown value")} : TextParsed("parse_value", "", 0, D, D)

\* parse_top with the value parse_value has returned, which is no object and
\* no array
TextTop ==
  /\ pc = "returned"
  /\ \E T \in {v4_p_skip_ws(call.opt)} :
        \E D \in {die(T, "top-level JSON must be object or array of objects")} :
          /\ pc' = "exit"
          /\ err' = D.err
          /\ p_pos' = D.at
  /\ UNCHANGED <<input, A_perm, A_tmp, G_tmpbuf1, objs, headers, kv, i, out, call_vars>>

TextNext ==
  TextEOF \/ TextString \/ TextNumber \/ TextKeyword \/ TextUnknown \/ TextTop

TextSpec == TextInit /\ [][TextNext]_vars

\* C29: every byte parse_string and parse_number_text of the loop-optimized
\* variant write into their buffer, the terminating NUL included, goes to an
\* index below the capacity the buffer has at that moment.
C29_WritesBelowCapacity == pc # "token" => call.opt.wild = {}

\* the strings of the pool are written within the buffer, the numbers of
\* fewer than 64 bytes too
C29_StringsWithin ==
  pc # "token" =>
    \/ call.opt.wild = {}
    \/ call.op = "parse_number_text" /\ call.opt.len >= 64

\* the text a caller reads in the block: the len bytes before the NUL, as far
\* as the block goes
TextOf(T) == SubSeq(T.buf, 1, IF T.len <= T.cap THEN T.len ELSE T.cap)

\* the two variants leave a token the same way: the same fatal error, or the
\* same text with the parser at the same byte
SameToken(Opt, Base) ==
  /\ Opt.err = Base.err
  /\ ~Failed(Opt) =>
       /\ Opt.len = Base.len
       /\ TextOf(Opt) = TextOf(Base)
       /\ Opt.cap > 0 => (Opt.len < Opt.cap /\ Opt.buf[Opt.len + 1] = 0)
       /\ Opt.c = Base.c
       /\ Opt.at = Base.at

\* C30: on every input the loop-optimized variant ends as the baseline does:
\* the run is not cut short or led astray, and it has the same fatal error or
\* hands on the same text, from which the header and the rows are printed.
C30_SameOutcome ==
  pc # "token" => /\ pc \in {"returned", "exit"}
                  /\ SameToken(call.opt, call.base)

\* as long as no byte is written outside the block the two variants agree
C30_SameWithin ==
  pc # "token" /\ call.opt.wild = {} => SameToken(call.opt, call.base)

\* the combined test of hexval agrees with the baseline's three ranges on
\* every byte and on EOF
C30_HexvalAgrees == \A ch \in (0 - 1)..255 : v4_hexval(ch) = hexval(ch)

====
